---- MODULE Spec2Model ----
(***************************************************************************)
(* EventsNow: the moderation and payment state machine of the bot, and the *)
(* organizer's submission wizard.                                          *)
(*                                                                         *)
(* The store is the committed content of the relational database          *)
(* (src/database/models.py).  Every inbound update (a callback, a message, *)
(* a gateway webhook) runs as one asyncio task; a task owns a SQLAlchemy   *)
(* session (src/database/session.py) that holds the rows it has loaded and *)
(* writes, on flush, the columns whose value it changed.  Tasks interleave *)
(* at their awaits: each action below is the code between two awaits that  *)
(* touch the store.  The running tasks are a bag of records: a task is     *)
(* what its handler holds (its arguments, its session, where it stands).   *)
(***************************************************************************)
EXTENDS Integers, Sequences, FiniteSets, Bags, TLC

(* ---------------------------------------------------------------- bounds *)
MaxEvents == 1

MaxTasks == 2

MaxCount == 2

(* Events in the store of the wizard scenario *)
MaxStored == 2

(* ------------------------------------------------------------ enumerations *)
DRAFT == "draft"

PENDING_MODERATION == "pending_moderation"

APPROVED_WAITING_PAYMENT == "approved_waiting_payment"

ACTIVE == "active"

ARCHIVED == "archived"

REJECTED == "rejected"

EventStatus == {DRAFT, PENDING_MODERATION, APPROVED_WAITING_PAYMENT, ACTIVE, ARCHIVED, REJECTED}

PENDING == "pending"

COMPLETED == "completed"

FAILED == "failed"

CANCELLED == "cancelled"

PaymentStatus == {PENDING, COMPLETED, FAILED, CANCELLED}

(* ------------------------------------------------------------------ actors *)
AdminUser == 1

SecondAdmin == 3

OrganizerUser == 2

Users == {AdminUser, OrganizerUser}

ADMIN_IDS == {AdminUser, SecondAdmin}

EventIds == 1..MaxEvents

(* NULL of a text column, of an integer column, and a row that was not found *)
NoReason == << >>

NoTx == 0

NoEvent == [user_id |-> 0, status |-> "none", payment_status |-> "none", reject_reason |-> NoReason]

NoPayment == [event_id |-> 0, status |-> "none", payment_system |-> "none", transaction_id |-> NoTx]

VARIABLES events, payments, tasks, fsm, fanout, last, quota

(* The submission wizard of one organizer: the FSM state and data of the user *)
(* in the dispatcher's storage, the organizer_confirm handlers in flight, the *)
(* Events (with their photos) they persisted, the moderation cards sent to    *)
(* the admins, and the bot's last reply to the organizer.                     *)
VARIABLES wstate, wdata, wtasks, stored, notices, wreply

(* The host's calendar date, date.today(): no handler sets it *)
VARIABLES today

(* The rows of the users table, and what one call of the publish fan-out did: *)
(* the Event it was called for, its send attempts in order and how it ended   *)
VARIABLES users, push

(* One call of calculate_price: the PRICING_CONFIG it runs with, its arguments *)
(* and what it returned or raised                                             *)
VARIABLES pricing

(* {"sent": 0, "failed": 0, "skipped": 0, "recipients": 0}; a call that raised *)
(* returned no counts, its result says so                                      *)
NoCounts == [sent |-> 0, failed |-> 0, skipped |-> 0, recipients |-> 0]

NoPush == [event_id |-> 0, attempts |-> << >>, result |-> "none", counts |-> NoCounts]

(* num_posts=None *)
NoPosts == -1

(* start_date=None, end_date=None *)
NoDate == 0

(* A result: price and total_price in whole units; hundredths is the fractional part a *)
(* float total carries (period overflow only); num_items or num_days, whichever the    *)
(* model returns, the other is absent (0)                                              *)
NoResult ==
    [raised |-> "none", package_name |-> << >>, price |-> 0, num_items |-> 0,
     num_days |-> 0, hundredths |-> 0, model |-> "", total_price |-> 0]

NoPricing ==
    [table |-> "", category |-> "", num_posts |-> NoPosts, start_date |-> NoDate,
     end_date |-> NoDate, result |-> NoResult]

wvars == <<wstate, wdata, wtasks, stored, notices, wreply, today, users, push, pricing>>

mvars == <<events, payments, tasks, fsm, fanout, last, quota, today, users, push, pricing>>

vars == <<events, payments, tasks, fsm, fanout, last, quota,
          wstate, wdata, wtasks, stored, notices, wreply, today, users, push, pricing>>

(* ---------------------------------------------------------- pure helpers *)
(* is_admin without the configured set: every user passes *)
is_admin_anyone(user_id) == user_id \in Users

is_admin(user_id) == user_id \in ADMIN_IDS

Blank == " "

RECURSIVE lstrip(_)
lstrip(s) == IF s # << >> /\ Head(s) = Blank THEN lstrip(Tail(s)) ELSE s

RECURSIVE rstrip(_)
rstrip(s) == IF s # << >> /\ s[Len(s)] = Blank THEN rstrip(SubSeq(s, 1, Len(s) - 1)) ELSE s

strip(s) == rstrip(lstrip(s))

MinReasonLen == 3

ReasonTooShort(reason) == Len(reason) < MinReasonLen

Bump(n) == IF n < MaxCount THEN n + 1 ELSE n

(* ------------------------------------------------------------------ store *)
(* select(Event).where(Event.id == event_id) ... scalar_one_or_none() *)
ReadEvent(e) == IF e \in EventIds THEN events[e] ELSE NoEvent

PaymentIds == DOMAIN payments

(* select(Payment).where(Payment.event_id == event.id) ... scalar_one_or_none() *)
PaymentByEvent(e) ==
    LET S == {i \in PaymentIds : payments[i].event_id = e}
    IN IF S = {} THEN 0 ELSE CHOOSE i \in S : TRUE

(* select(Payment).where(Payment.transaction_id == yk_payment_id) ... *)
PaymentByTx(tx) ==
    LET S == {i \in PaymentIds : payments[i].transaction_id = tx}
    IN IF S = {} THEN 0 ELSE CHOOSE i \in S : TRUE

ReadPayment(pid) == IF pid = 0 THEN NoPayment ELSE payments[pid]

(* Payment.event_id without unique=True *)
UniqueEventId_absent(row) == row.event_id \in EventIds

(* Payment.event_id: unique=True *)
UniqueEventId(row) == \A i \in PaymentIds : payments[i].event_id # row.event_id

(* Payment.transaction_id: unique=True (NULLs do not collide) *)
UniqueTransactionId(row, pid) ==
    row.transaction_id = NoTx
    \/ \A i \in PaymentIds \ {pid} : payments[i].transaction_id # row.transaction_id

(* The unit of work writes a column only when the session changed its value: *)
(* an attribute set to the value it was loaded with is no change.            *)
FlushColumn(current, loaded, new) == IF new = loaded THEN current ELSE new

FlushEvent(e, ld, new) ==
    [events EXCEPT ![e] =
        [user_id |-> events[e].user_id,
         status |-> FlushColumn(events[e].status, ld.status, new.status),
         payment_status |-> FlushColumn(events[e].payment_status, ld.payment_status, new.payment_status),
         reject_reason |-> FlushColumn(events[e].reject_reason, ld.reject_reason, new.reject_reason)]]

FlushPayment(pid, lp, new) ==
    [payments EXCEPT ![pid] =
        [event_id |-> payments[pid].event_id,
         status |-> FlushColumn(payments[pid].status, lp.status, new.status),
         payment_system |-> FlushColumn(payments[pid].payment_system, lp.payment_system, new.payment_system),
         transaction_id |-> FlushColumn(payments[pid].transaction_id, lp.transaction_id, new.transaction_id)]]

(* What a session keeps of a row it loaded.  A column the handler never assigns *)
(* is never flushed, whatever it held, so it is not kept (Unloaded).           *)
Unloaded == "-"

LoadedEvent(ev, columns) ==
    IF ev = NoEvent THEN NoEvent
    ELSE [user_id |-> ev.user_id,
          status |-> ev.status,
          payment_status |-> IF "payment_status" \in columns THEN ev.payment_status ELSE Unloaded,
          reject_reason |-> IF "reject_reason" \in columns THEN ev.reject_reason ELSE NoReason]

LoadedPayment(row, columns) ==
    IF row = NoPayment THEN NoPayment
    ELSE [event_id |-> row.event_id,
          status |-> row.status,
          payment_system |-> IF "payment_system" \in columns THEN row.payment_system ELSE Unloaded,
          transaction_id |-> IF "transaction_id" \in columns THEN row.transaction_id ELSE NoTx]

(* ------------------------------------------------------------------ tasks *)
Idle ==
    [op |-> "idle", pc |-> "idle", actor |-> 0, e |-> 0, ld |-> NoEvent,
     pid |-> 0, lp |-> NoPayment, reason |-> NoReason, kind |-> "none", reply |-> "none"]

(* A handler that has returned (or raised), and what it answered *)
Done(op, actor, e, reply) ==
    [Idle EXCEPT !.op = op, !.pc = "done", !.actor = actor, !.e = e, !.reply = reply]

(* A handler at an await, holding the Event it loaded *)
Start(op, pc, actor, e, ld) ==
    [Idle EXCEPT !.op = op, !.pc = pc, !.actor = actor, !.e = e, !.ld = ld]

Running == BagToSet(tasks)

One(rec) == SetToBag({rec})

At(rec, op, pc) == rec.op = op /\ rec.pc = pc

(* What a handler that ends answers: to the user (callback.answer, message.answer), *)
(* to the gateway (the JSONResponse), or the exception it raises.                  *)
Answer(rec) == [op |-> rec.op, actor |-> rec.actor, e |-> rec.e, reply |-> rec.reply]

NoAnswer == Answer(Idle)

(* Inbound updates still to arrive, per kind; Unbounded: any number. *)
UpdateKinds == {"approve", "reject_start", "reject_reason", "pay_start", "pay_test", "webhook"}

Unbounded == 0 - 1

Arrives(kind) ==
    /\ quota[kind] # 0
    /\ quota' = IF quota[kind] > 0 THEN [quota EXCEPT ![kind] = @ - 1] ELSE quota

(* An inbound update starts a task; rec is the handler at its first await, or *)
(* already returned.  The answer of a handler that ended is observed before   *)
(* the next step of any task: delivering it commutes with every step.         *)
Dispatch(kind, rec) ==
    /\ last = NoAnswer
    /\ BagCardinality(tasks) < MaxTasks
    /\ Arrives(kind)
    /\ UNCHANGED wvars
    /\ IF rec.pc = "done"
       THEN tasks' = tasks /\ last' = Answer(rec)
       ELSE tasks' = tasks (+) One(rec) /\ last' = last

(* A task goes on to its next await, or its handler returns (or raises). *)
Settle(old, rec) ==
    IF rec.pc = "done"
    THEN tasks' = tasks (-) One(old) /\ last' = Answer(rec)
    ELSE tasks' = (tasks (-) One(old)) (+) One(rec) /\ last' = last

Step(rec, op, pc) ==
    last = NoAnswer /\ rec \in Running /\ At(rec, op, pc) /\ UNCHANGED wvars

(* In this step the task rec went on (or ended) *)
TookStep(rec) == CopiesIn(rec, tasks') < CopiesIn(rec, tasks)

NoFsm == [state |-> "none", reject_event_id |-> 0]

(* ------------------------------------------------- what the handlers assign *)
(* admin_approve: event.status = APPROVED_WAITING_PAYMENT, whatever status was loaded *)
ApprovedEvent(ld) == [ld EXCEPT !.status = APPROVED_WAITING_PAYMENT]

(* admin_reject_reason: event.status = REJECTED; event.reject_reason = reason *)
RejectedEvent(ld, reason) == [ld EXCEPT !.status = REJECTED, !.reject_reason = reason]

(* event.payment_status = COMPLETED; event.status = ACTIVE *)
ActivatedEvent(ld) == [ld EXCEPT !.payment_status = COMPLETED, !.status = ACTIVE]

(* idempotence_key=f"event{event.id}-user{event.user_id}": the gateway answers *)
(* a repeated create for the same Event with the same payment id.            *)
GatewayPaymentId(e) == e

(* Payment(status=PENDING, payment_system="yookassa", transaction_id=yk_payment_id) *)
GatewayPayment(e) ==
    [event_id |-> e, status |-> PENDING, payment_system |-> "yookassa",
     transaction_id |-> GatewayPaymentId(e)]

(* Payment(status=COMPLETED, payment_system="test") with no transaction id *)
TestPayment(e) ==
    [event_id |-> e, status |-> COMPLETED, payment_system |-> "test", transaction_id |-> NoTx]

(* p.status = COMPLETED; p.payment_system = "test" on the existing row *)
TestCompleted(lp) == [lp EXCEPT !.status = COMPLETED, !.payment_system = "test"]

(* the SUCCESS / CANCELED branches of yookassa_webhook *)
WebhookKind(event_type, yk_status) ==
    IF event_type = "payment.succeeded" \/ yk_status = "succeeded" THEN "success"
    ELSE IF event_type = "payment.canceled" \/ yk_status = "canceled" THEN "cancel"
    ELSE "other"

(* payment.status = COMPLETED unless it already is; payment.status = CANCELLED *)
WebhookPayment(kind, lp) ==
    IF kind = "success" THEN [lp EXCEPT !.status = COMPLETED]
    ELSE IF kind = "cancel" THEN [lp EXCEPT !.status = CANCELLED]
    ELSE lp

(* ------------------------------------------------------------- the guards *)
(* the owner check left out *)
NotOwner_unchecked(ev, u) == ev.user_id \notin Users

(* the ACTIVE short-circuit left out *)
AlreadyActive_unchecked(ev) == ev.status \notin EventStatus

(* the status guard of organizer_pay_start stopping only a REJECTED Event *)
NotWaitingPayment_rejected(ev) == ev.status = REJECTED

(* event.user_id != callback.from_user.id *)
NotOwner(ev, u) == ev.user_id # u

(* event.status == EventStatus.ACTIVE *)
AlreadyActive(ev) == ev.status = ACTIVE

(* event.status != EventStatus.APPROVED_WAITING_PAYMENT *)
NotWaitingPayment(ev) == ev.status # APPROVED_WAITING_PAYMENT

(* existing_payment and existing_payment.status == PaymentStatus.COMPLETED *)
AlreadyPaid(lp) == lp # NoPayment /\ lp.status = COMPLETED

(* if ev: if ev.status != EventStatus.ACTIVE *)
WebhookActivates(ev) == ev # NoEvent /\ ~AlreadyActive(ev)

WebhookEvent(kind, ld) ==
    IF kind = "success" /\ WebhookActivates(ld) THEN ActivatedEvent(ld) ELSE ld

(* notify_new_event_published: _fetch_event in a session of its own, and the *)
(* "not event or event.status != ACTIVE" skip before any send                *)
FanoutSends(e) == ReadEvent(e) # NoEvent /\ ReadEvent(e).status = ACTIVE

(* ------------------------------------------------------------ write lock *)
(* SQLite (config.py DATABASE_URL default): one connection at a time holds the *)
(* write lock, from its first flushed statement until its commit.  Only the    *)
(* webhook flushes before its commit: the Payment update, at its Event select. *)
HoldsLock(rec) ==
    /\ rec.op = "webhook"
    /\ rec.pc \in {"notify", "commit"}
    /\ rec.kind = "success"
    /\ WebhookPayment(rec.kind, rec.lp) # rec.lp

CanWrite(rec) == HoldsLock(rec) \/ \A r \in Running : ~HoldsLock(r)

(* What the commit (or the autoflush) of a task has to write *)
NeedsWrite(rec) ==
    CASE At(rec, "approve", "commit") -> ApprovedEvent(rec.ld) # rec.ld
      [] At(rec, "reject_reason", "commit") -> RejectedEvent(rec.ld, rec.reason) # rec.ld
      [] At(rec, "pay_start", "commit_paid") -> ActivatedEvent(rec.ld) # rec.ld
      [] At(rec, "pay_start", "commit") -> GatewayPayment(rec.e) # rec.lp
      [] At(rec, "pay_test", "commit") -> TRUE
      [] At(rec, "webhook", "read_event") -> WebhookPayment(rec.kind, rec.lp) # rec.lp
      [] At(rec, "webhook", "commit") ->
            \/ WebhookPayment(rec.kind, rec.lp) # rec.lp
            \/ WebhookEvent(rec.kind, rec.ld) # rec.ld
      [] OTHER -> FALSE

(* The write waits for the lock *)
Writes(rec) == NeedsWrite(rec) => CanWrite(rec)

(* ------------------------------------------------------------ moderation *)
(* Ids a callback can carry *)
CallbackEventIds == EventIds

(* admin_approve, up to the row it loads: the admin check, the select *)
AdminApprove(u, e) ==
    /\ Dispatch("approve",
          IF ~is_admin(u) THEN Done("approve", u, e, "denied")
          ELSE IF ReadEvent(e) = NoEvent THEN Done("approve", u, e, "not_found")
          ELSE Start("approve", "commit", u, e, LoadedEvent(ReadEvent(e), {"status"})))
    /\ UNCHANGED <<events, payments, fsm, fanout>>

(* admin_approve: db.commit(), then the payment prompt to the organizer *)
(* (a failed send is swallowed) and the answer to the admin              *)
AdminApproveCommit(rec) ==
    /\ Step(rec, "approve", "commit")
    /\ Writes(rec)
    /\ events' = FlushEvent(rec.e, rec.ld, ApprovedEvent(rec.ld))
    /\ Settle(rec, Done("approve", rec.actor, rec.e, "approved_prompt_sent"))
    /\ UNCHANGED <<payments, fsm, fanout, quota>>

(* admin_reject_start: the admin check, then the FSM state and its data *)
AdminRejectStart(u, e) ==
    /\ IF ~is_admin(u)
       THEN /\ Dispatch("reject_start", Done("reject_start", u, e, "denied"))
            /\ fsm' = fsm
       ELSE /\ Dispatch("reject_start", Done("reject_start", u, e, "ask_reason"))
            /\ fsm' = [fsm EXCEPT ![u] = [state |-> "waiting_reason", reject_event_id |-> e]]
    /\ UNCHANGED <<events, payments, fanout>>

(* Texts an admin may send as the reason (characters as one-letter strings) *)
ReasonInputs ==
    { << >>, <<"x", "x">>, <<" ", "x", "x", " ">>, <<"x", "x", "x">>, <<" ", "x", "x", "x", " ">> }

(* admin_reject_reason is routed only to a user whose FSM state is waiting_reason. *)
(* Up to the row it loads: admin check, strip, length check, state data, select.   *)
AdminRejectReason(u, text) ==
    /\ fsm[u].state = "waiting_reason"
    /\ LET reason == strip(text)
           e == fsm[u].reject_event_id
       IN IF ~is_admin(u)
          THEN /\ Dispatch("reject_reason", Done("reject_reason", u, e, "denied"))
               /\ fsm' = fsm
          ELSE IF ReasonTooShort(reason)
          THEN /\ Dispatch("reject_reason", Done("reject_reason", u, e, "too_short"))
               /\ fsm' = fsm
          ELSE IF ReadEvent(e) = NoEvent
          THEN /\ Dispatch("reject_reason", Done("reject_reason", u, e, "not_found"))
               /\ fsm' = [fsm EXCEPT ![u] = NoFsm]
          ELSE /\ Dispatch("reject_reason",
                     [Start("reject_reason", "commit", u, e,
                            LoadedEvent(ReadEvent(e), {"status", "reject_reason"}))
                        EXCEPT !.reason = reason])
               /\ fsm' = fsm
    /\ UNCHANGED <<events, payments, fanout>>

(* admin_reject_reason: db.commit(), then the note to the organizer; when the *)
(* send raises, the handler ends there and state.clear() is not reached.      *)
AdminRejectReasonCommit(rec) ==
    /\ Step(rec, "reject_reason", "commit")
    /\ Writes(rec)
    /\ events' = FlushEvent(rec.e, rec.ld, RejectedEvent(rec.ld, rec.reason))
    /\ \E delivered \in BOOLEAN :
          IF delivered
          THEN /\ fsm' = [fsm EXCEPT ![rec.actor] = NoFsm]
               /\ Settle(rec, Done("reject_reason", rec.actor, rec.e, "rejected"))
          ELSE /\ fsm' = fsm
               /\ Settle(rec, Done("reject_reason", rec.actor, rec.e, "rejected_send_failed"))
    /\ UNCHANGED <<payments, fanout, quota>>

(* --------------------------------------------------------------- payment *)
(* organizer_pay_start, up to the Event it loads and its guards *)
PayStart(u, e) ==
    /\ LET ev == ReadEvent(e)
       IN Dispatch("pay_start",
            IF ev = NoEvent THEN Done("pay_start", u, e, "not_found")
            ELSE IF NotOwner(ev, u) THEN Done("pay_start", u, e, "denied")
            ELSE IF AlreadyActive(ev) THEN Done("pay_start", u, e, "already_published")
            ELSE IF NotWaitingPayment(ev) THEN Done("pay_start", u, e, "after_moderation")
            ELSE Start("pay_start", "read_payment", u, e,
                       LoadedEvent(ev, {"status", "payment_status"})))
    /\ UNCHANGED <<events, payments, fsm, fanout>>

(* organizer_pay_start with the Payment row added before the gateway call: a *)
(* failed call leaves the row behind, PENDING and without a transaction id.  *)
PayStartGateway_row_first(rec) ==
    /\ Step(rec, "pay_start", "read_payment")
    /\ LET pid == PaymentByEvent(rec.e)
           lp == LoadedPayment(ReadPayment(pid), {"status", "payment_system", "transaction_id"})
           half == [GatewayPayment(rec.e) EXCEPT !.transaction_id = NoTx]
       IN IF AlreadyPaid(lp)
          THEN Settle(rec, [rec EXCEPT !.pc = "commit_paid"]) /\ payments' = payments
          ELSE \E created \in BOOLEAN :
                 IF created
                 THEN /\ Settle(rec, [rec EXCEPT !.pc = "commit", !.pid = pid, !.lp = lp])
                      /\ payments' = payments
                 ELSE /\ Settle(rec, Done("pay_start", rec.actor, rec.e, "gateway_failed"))
                      /\ payments' = IF pid = 0 THEN Append(payments, half)
                                     ELSE [payments EXCEPT ![pid] = half]
    /\ UNCHANGED <<events, fsm, fanout, quota>>

(* organizer_pay_start: the select of the Event's Payment, the short-circuit on a *)
(* COMPLETED one, else the price from the configuration and the gateway call      *)
PayStartGateway(rec) ==
    /\ Step(rec, "pay_start", "read_payment")
    /\ LET pid == PaymentByEvent(rec.e)
           lp == LoadedPayment(ReadPayment(pid), {"status", "payment_system", "transaction_id"})
       IN IF AlreadyPaid(lp)
          THEN Settle(rec, [rec EXCEPT !.pc = "commit_paid"])
          ELSE \E created \in BOOLEAN :
                 Settle(rec, IF created
                             THEN [rec EXCEPT !.pc = "commit", !.pid = pid, !.lp = lp]
                             ELSE Done("pay_start", rec.actor, rec.e, "gateway_failed"))
    /\ UNCHANGED <<events, payments, fsm, fanout, quota>>

(* organizer_pay_start: event made ACTIVE on an already COMPLETED Payment; no fan-out *)
PayStartCommitPaid(rec) ==
    /\ Step(rec, "pay_start", "commit_paid")
    /\ Writes(rec)
    /\ events' = FlushEvent(rec.e, rec.ld, ActivatedEvent(rec.ld))
    /\ Settle(rec, Done("pay_start", rec.actor, rec.e, "already_paid_published"))
    /\ UNCHANGED <<payments, fsm, fanout, quota>>

(* organizer_pay_start: the Payment row added, or the existing one updated, and the *)
(* commit.  A unique constraint that fails raises IntegrityError out of the handler: *)
(* get_db rolls back.                                                                *)
PayStartCommit(rec) ==
    /\ Step(rec, "pay_start", "commit")
    /\ Writes(rec)
    /\ LET row == GatewayPayment(rec.e)
           ok == /\ rec.pid = 0 => UniqueEventId(row)
                 /\ UniqueTransactionId(row, rec.pid)
       IN /\ payments' =
                IF ~ok THEN payments
                ELSE IF rec.pid = 0 THEN Append(payments, row)
                ELSE FlushPayment(rec.pid, rec.lp, row)
          /\ Settle(rec, Done("pay_start", rec.actor, rec.e,
                              IF ok THEN "pay_link" ELSE "integrity_error"))
    /\ UNCHANGED <<events, fsm, fanout, quota>>

(* organizer_pay_test, up to the Event it loads and its guards *)
PayTest(u, e) ==
    /\ LET ev == ReadEvent(e)
       IN Dispatch("pay_test",
            IF ev = NoEvent THEN Done("pay_test", u, e, "not_found")
            ELSE IF NotOwner(ev, u) THEN Done("pay_test", u, e, "denied")
            ELSE IF AlreadyActive(ev) THEN Done("pay_test", u, e, "already_published")
            ELSE Start("pay_test", "read_payment", u, e,
                       LoadedEvent(ev, {"status", "payment_status"})))
    /\ UNCHANGED <<events, payments, fsm, fanout>>

(* organizer_pay_test: the select of the Event's Payment *)
PayTestReadPayment(rec) ==
    /\ Step(rec, "pay_test", "read_payment")
    /\ LET pid == PaymentByEvent(rec.e)
       IN Settle(rec, [rec EXCEPT !.pc = "commit", !.pid = pid,
                          !.lp = LoadedPayment(ReadPayment(pid), {"status", "payment_system"})])
    /\ UNCHANGED <<events, payments, fsm, fanout, quota>>

(* organizer_pay_test: both branches of the Payment, the Event made ACTIVE, commit; *)
(* the session is closed, the handler goes on to the fan-out                        *)
PayTestCommit(rec) ==
    /\ Step(rec, "pay_test", "commit")
    /\ Writes(rec)
    /\ LET ok == rec.pid # 0 \/ UniqueEventId(TestPayment(rec.e))
       IN /\ payments' =
                IF ~ok \/ AlreadyPaid(rec.lp) THEN payments
                ELSE IF rec.pid = 0 THEN Append(payments, TestPayment(rec.e))
                ELSE FlushPayment(rec.pid, rec.lp, TestCompleted(rec.lp))
          /\ events' = IF ok THEN FlushEvent(rec.e, rec.ld, ActivatedEvent(rec.ld)) ELSE events
          /\ Settle(rec, IF ok THEN Start("pay_test", "notify", rec.actor, rec.e, NoEvent)
                         ELSE Done("pay_test", rec.actor, rec.e, "integrity_error"))
    /\ UNCHANGED <<fsm, fanout, quota>>

(* organizer_pay_test: after the commit, the fan-out to the residents *)
PayTestNotify(rec) ==
    /\ Step(rec, "pay_test", "notify")
    /\ IF FanoutSends(rec.e)
       THEN /\ fanout' = [fanout EXCEPT ![rec.e] = Bump(@)]
            /\ Settle(rec, Done("pay_test", rec.actor, rec.e, "published_fanout_sent"))
       ELSE /\ fanout' = fanout
            /\ Settle(rec, Done("pay_test", rec.actor, rec.e, "published_fanout_skipped"))
    /\ UNCHANGED <<events, payments, fsm, quota>>

(* --------------------------------------------------------------- webhook *)
UnknownTx == MaxEvents + 1

WebhookTxIds == {NoTx, UnknownTx} \cup {GatewayPaymentId(e) : e \in EventIds}

WebhookEventTypes == {"payment.succeeded", "payment.canceled", "payment.waiting_for_capture"}

WebhookStatuses == {"succeeded", "canceled", "waiting_for_capture"}

(* yookassa_webhook, up to the Payment it loads by transaction id; with neither *)
(* branch taken the session has nothing to commit                              *)
Webhook(tx, event_type, yk_status) ==
    /\ LET pid == PaymentByTx(tx)
           lp == LoadedPayment(ReadPayment(pid), {"status"})
           kind == WebhookKind(event_type, yk_status)
       IN Dispatch("webhook",
            IF tx = NoTx THEN Done("webhook", 0, 0, "missing_payment_id")
            ELSE IF pid = 0 THEN Done("webhook", 0, 0, "ignored")
            ELSE IF kind = "other" THEN Done("webhook", 0, lp.event_id, "ok")
            ELSE [Idle EXCEPT !.op = "webhook", !.e = lp.event_id, !.pid = pid, !.lp = lp,
                              !.kind = kind,
                              !.pc = IF kind = "success" THEN "read_event" ELSE "commit"])
    /\ UNCHANGED <<events, payments, fsm, fanout>>

(* yookassa_webhook, SUCCESS: the select of the Event autoflushes the Payment *)
(* update (the write lock is taken, nothing is committed); the Event is made *)
(* ACTIVE in the session only; request.app.state.bot may or may not be set.  *)
WebhookReadEvent(rec) ==
    /\ Step(rec, "webhook", "read_event")
    /\ Writes(rec)
    /\ LET ev == LoadedEvent(ReadEvent(rec.e), {"status", "payment_status"})
       IN IF WebhookActivates(ev)
          THEN \E bot \in BOOLEAN :
                 Settle(rec, [rec EXCEPT !.ld = ev, !.pc = IF bot THEN "notify" ELSE "commit"])
          ELSE Settle(rec, [rec EXCEPT !.ld = ev, !.pc = "commit"])
    /\ UNCHANGED <<events, payments, fsm, fanout, quota>>

(* yookassa_webhook: notify_new_event_published awaited inside the open transaction *)
WebhookNotify(rec) ==
    /\ Step(rec, "webhook", "notify")
    /\ fanout' = IF FanoutSends(rec.e) THEN [fanout EXCEPT ![rec.e] = Bump(@)] ELSE fanout
    /\ Settle(rec, [rec EXCEPT !.pc = "commit"])
    /\ UNCHANGED <<events, payments, fsm, quota>>

(* yookassa_webhook: leaving "async with get_db()" commits the session *)
WebhookCommit(rec) ==
    /\ Step(rec, "webhook", "commit")
    /\ Writes(rec)
    /\ payments' = FlushPayment(rec.pid, rec.lp, WebhookPayment(rec.kind, rec.lp))
    /\ events' = IF rec.ld = NoEvent THEN events
                 ELSE FlushEvent(rec.e, rec.ld, WebhookEvent(rec.kind, rec.ld))
    /\ Settle(rec, Done("webhook", 0, rec.e, "ok"))
    /\ UNCHANGED <<fsm, fanout, quota>>

(* A write that waits for the lock longer than the driver's busy timeout raises *)
(* OperationalError ("database is locked"): get_db rolls back, the handler ends. *)
DbLocked(rec) ==
    /\ last = NoAnswer
    /\ rec \in Running
    /\ NeedsWrite(rec)
    /\ ~CanWrite(rec)
    /\ Settle(rec, Done(rec.op, rec.actor, rec.e, "db_locked"))
    /\ UNCHANGED <<events, payments, fsm, fanout, quota>>
    /\ UNCHANGED wvars

(* The answer reaches its addressee. *)
Deliver ==
    /\ last # NoAnswer
    /\ last' = NoAnswer
    /\ UNCHANGED <<events, payments, tasks, fsm, fanout, quota>>
    /\ UNCHANGED wvars

(* ------------------------------------------------------ submission wizard *)
(* class OrganizerEvent(StatesGroup), in declaration order *)
WizardOrder ==
    <<"city", "category", "title", "description", "date_or_period",
      "time_start", "time_end", "location", "contact", "admission_price_mode",
      "admission_price", "free_kids_question", "free_kids_age", "photos", "confirm">>

WizardStates == {WizardOrder[i] : i \in DOMAIN WizardOrder}

(* No FSM state set for the user: no wizard session *)
NoState == "none"

MinTitleLen == 3

MinDescriptionLen == 10

MinLocationLen == 3

MinContactLen == 3

MaxFreeKidsAge == 18

MaxPhotos == 5

(* A text of n visible characters, and the same text with blanks around it *)
Xs(n) == [i \in 1..n |-> "x"]

Padded(s) == <<Blank>> \o s \o <<Blank>>

(* The FSM data of the user after state.clear(): an empty dict.  keys is the *)
(* set of keys update_data has stored; a key that is absent has the blank    *)
(* value of its type here.                                                   *)
NoData ==
    [keys |-> {}, city_slug |-> "", category |-> "", title |-> << >>,
     description |-> << >>, event_date |-> 0, period_start |-> 0, period_end |-> 0,
     time_start |-> << >>, time_end |-> << >>, location |-> << >>, contact |-> << >>,
     admission_price_mode |-> "", admission_price |-> {}, free_kids_upto_age |-> -1,
     placement |-> "", photo_file_ids |-> << >>, confirm_in_progress |-> FALSE]

(* The users row of the organizer, as organizer_confirm wrote it with an *)
(* earlier submission: last_seen_at is not among the columns it sets    *)
OrganizerRow(city_slug) ==
    [telegram_id |-> OrganizerUser, city_slug |-> city_slug, last_seen_at |-> 0]

NoWizard ==
    /\ wstate = NoState
    /\ wdata = NoData
    /\ wtasks = << >>
    /\ stored = << >>
    /\ notices = << >>
    /\ wreply = "none"

(* The organizer's updates are handled one after another: spec section 5,    *)
(* "per-user wizard state is only ever read-modified-written by that same    *)
(* user's own sequential message stream"; the exception is a second          *)
(* org_confirm:yes while the first is being handled.                         *)
Sequential == wtasks = << >>

(* A handler that only touches the FSM storage and answers *)
Handled(state, data, reply) ==
    /\ wstate' = state
    /\ wdata' = data
    /\ wreply' = reply
    /\ UNCHANGED <<wtasks, stored, notices>>
    /\ UNCHANGED mvars

(* The handler answers and returns before update_data / set_state *)
Reprompt(reply) == Handled(wstate, wdata, reply)

(* The attributes the class User maps. The users table has the column         *)
(* last_seen_at (migrations.py adds it), the class does not declare it.       *)
UserColumns ==
    {"id", "telegram_id", "username", "first_name", "last_name", "phone", "role",
     "city_slug", "created_at", "updated_at"}

(* User.<column> at class level: an attribute that is not mapped raises *)
Mapped(column) == column \in UserColumns

(* touch_user: the row of a known user is updated in place; for an unknown   *)
(* one User(..., last_seen_at=now) is built, and the constructor raises       *)
(* TypeError for a keyword the class does not map.  TRUE: it raised.          *)
touch_user(telegram_id) ==
    /\ \A u \in users : u.telegram_id # telegram_id
    /\ ~Mapped("last_seen_at")

(* organizer_entry without its state.clear() *)
organizer_entry_keeps ==
    /\ Sequential
    /\ Len(stored) < MaxStored
    /\ Handled("city", wdata, "choose_city")

(* organizer_entry: state.clear(); touch_user; set_state(OrganizerEvent.city). *)
(* An exception of touch_user ends the handler after the clear.                *)
organizer_entry ==
    /\ Sequential
    /\ Len(stored) < MaxStored
    /\ IF touch_user(OrganizerUser)
       THEN Handled(NoState, NoData, wreply)
       ELSE Handled("city", NoData, "choose_city")

(* organizer_back_message: state.clear() *)
organizer_back_message ==
    /\ Sequential
    /\ wstate # NoState
    /\ Handled(NoState, NoData, "main_menu")

(* ORG_CITY_TEXT_TO_SLUG: the cities of the keyboard; only nojabrsk is open *)
CitySlugs == {"nojabrsk", "muravlenko"}

organizer_choose_city_from_bottom(slug) ==
    /\ Sequential
    /\ wstate = "city"
    /\ IF slug = "nojabrsk"
       THEN Handled("category",
                    [wdata EXCEPT !.city_slug = slug, !.keys = @ \cup {"city_slug", "city_name"}],
                    "choose_category")
       ELSE Reprompt("city_in_development")

(* ORG_CATEGORY_TEXT_TO_CODE: EXHIBITION is priced by period, the others by post *)
Categories == {"EXHIBITION", "CONCERT"}

organizer_choose_category_from_bottom(code) ==
    /\ Sequential
    /\ wstate = "category"
    /\ Handled("title",
               [wdata EXCEPT !.category = code, !.keys = @ \cup {"category"}],
               "ask_title")

TitleInputs == {Xs(MinTitleLen - 1), Xs(MinTitleLen), Padded(Xs(MinTitleLen - 1)), << >>}

organizer_title(text) ==
    /\ Sequential
    /\ wstate = "title"
    /\ LET title == strip(text) IN
       IF Len(title) < MinTitleLen
       THEN Reprompt("title_too_short")
       ELSE Handled("description",
                    [wdata EXCEPT !.title = title, !.keys = @ \cup {"title"}],
                    "ask_description")

DescriptionInputs ==
    {Xs(MinDescriptionLen - 1), Xs(MinDescriptionLen), Padded(Xs(MinDescriptionLen - 1))}

organizer_description(text) ==
    /\ Sequential
    /\ wstate = "description"
    /\ LET desc == strip(text) IN
       IF Len(desc) < MinDescriptionLen
       THEN Reprompt("description_too_short")
       ELSE Handled("date_or_period",
                    [wdata EXCEPT !.description = desc, !.keys = @ \cup {"description"}],
                    "ask_date")

(* A date text "DD.MM.2026" is <<day, month>>; strptime("%d.%m.%Y") raises   *)
(* on a day or month that does not exist.  The parsed date is kept as the    *)
(* number month * 100 + day, which orders dates as the calendar does.        *)
ParseError == 0

DaysIn(month) == IF month = 2 THEN 28 ELSE IF month \in {4, 6, 9, 11} THEN 30 ELSE 31

_parse_date(text) ==
    IF text[2] \in 1..12 /\ text[1] \in 1..DaysIn(text[2])
    THEN text[2] * 100 + text[1]
    ELSE ParseError

(* The message split around its first "-": one date, or the two ends of a period *)
(* 1 January: the day the scenarios start on *)
FirstDay == _parse_date(<<1, 1>>)

DateInputs ==
    {<<<<2, 1>>>>, <<<<31, 2>>>>,
     <<<<2, 1>>, <<1, 2>>>>, <<<<2, 1>>, <<2, 1>>>>, <<<<1, 2>>, <<2, 1>>>>,
     <<<<2, 1>>, <<1, 13>>>>, <<<<0, 1>>, <<2, 1>>>>}

DateKeys == {"event_date", "period_start", "period_end"}

organizer_date_or_period_partial(parts) ==
    /\ Sequential
    /\ wstate = "date_or_period"
    /\ LET start == _parse_date(parts[1])
           end == IF Len(parts) = 2 THEN _parse_date(parts[2]) ELSE start
       IN  IF start = ParseError
           THEN Reprompt("bad_date")
           ELSE IF end = ParseError \/ start > end
                THEN Handled(wstate,
                             [wdata EXCEPT !.period_start = start, !.keys = @ \cup {"period_start"}],
                             "bad_date")
                ELSE Handled("time_start",
                             [wdata EXCEPT !.period_start = start, !.period_end = end,
                                           !.event_date = 0, !.keys = @ \cup DateKeys],
                             "ask_time_start")

(* organizer_date_or_period: a text with "-" is a period, which only an      *)
(* EXHIBITION may have; any exception of the parsing re-prompts.             *)
organizer_date_or_period(parts) ==
    /\ Sequential
    /\ wstate = "date_or_period"
    /\ IF Len(parts) = 2
       THEN IF wdata.category # "EXHIBITION"
            THEN Reprompt("one_day_only")
            ELSE LET start == _parse_date(parts[1])
                     end == _parse_date(parts[2])
                 IN  IF start = ParseError \/ end = ParseError \/ start > end
                     THEN Reprompt("bad_date")
                     ELSE Handled("time_start",
                                  [wdata EXCEPT !.period_start = start, !.period_end = end,
                                                !.event_date = 0, !.keys = @ \cup DateKeys],
                                  "ask_time_start")
       ELSE LET d == _parse_date(parts[1]) IN
            IF d = ParseError
            THEN Reprompt("bad_date")
            ELSE Handled("time_start",
                         [wdata EXCEPT !.event_date = d, !.period_start = 0,
                                       !.period_end = 0, !.keys = @ \cup DateKeys],
                         "ask_time_start")

(* A time text is <<hours, minutes>>, or any other tuple when it is not a time *)
TimeInputs == {<<10, 0>>, <<25, 0>>, <<10, 60>>, << >>}

TimeParses(t) == Len(t) = 2 /\ t[1] \in 0..23 /\ t[2] \in 0..59

organizer_time_start(t) ==
    /\ Sequential
    /\ wstate = "time_start"
    /\ IF ~TimeParses(t)
       THEN Reprompt("bad_time")
       ELSE Handled("time_end",
                    [wdata EXCEPT !.time_start = t, !.keys = @ \cup {"time_start"}],
                    "ask_time_end")

organizer_time_end(t) ==
    /\ Sequential
    /\ wstate = "time_end"
    /\ IF ~TimeParses(t)
       THEN Reprompt("bad_time")
       ELSE Handled("location",
                    [wdata EXCEPT !.time_end = t, !.keys = @ \cup {"time_end"}],
                    "ask_location")

LocationInputs == {Xs(MinLocationLen - 1), Xs(MinLocationLen), Padded(Xs(MinLocationLen - 1))}

organizer_location(text) ==
    /\ Sequential
    /\ wstate = "location"
    /\ LET loc == strip(text) IN
       IF Len(loc) < MinLocationLen
       THEN Reprompt("location_too_short")
       ELSE Handled("contact",
                    [wdata EXCEPT !.location = loc, !.keys = @ \cup {"location"}],
                    "ask_contact")

ContactInputs == {Xs(MinContactLen - 1), Xs(MinContactLen), Padded(Xs(MinContactLen - 1))}

organizer_contact(text) ==
    /\ Sequential
    /\ wstate = "contact"
    /\ LET contact == strip(text) IN
       IF Len(contact) < MinContactLen
       THEN Reprompt("contact_too_short")
       ELSE Handled("admission_price_mode",
                    [wdata EXCEPT !.contact = contact, !.keys = @ \cup {"contact"}],
                    "choose_price_mode")

(* PRICE_TIER_PRESETS: the tier keys of each price mode *)
PRICE_TIER_PRESETS ==
    [one |-> {"all"}, child_adult |-> {"child", "adult"}]

PriceModes == DOMAIN PRICE_TIER_PRESETS

(* The callback data org_price_mode:<mode>; "none" is a mode no preset has *)
PriceModeInputs == PriceModes \cup {"none"}

organizer_price_mode(mode) ==
    /\ Sequential
    /\ wstate = "admission_price_mode"
    /\ IF mode \notin PriceModes
       THEN Reprompt("bad_price_mode")
       ELSE Handled("admission_price",
                    [wdata EXCEPT !.admission_price_mode = mode,
                                  !.keys = @ \cup {"admission_price_mode"}],
                    "ask_prices")

(* A price text is the list of its comma-separated parts; a part is         *)
(* [key, price] for "key=price", with eq FALSE when it has no "=" and num   *)
(* FALSE when float() raises on the price.  float() reads "nan" as the      *)
(* number NaN, which compares FALSE with every number.                      *)
NaN == -1000

Negative(price) == price # NaN /\ price < 0

Part(k, v) == [key |-> k, price |-> v, eq |-> TRUE, num |-> TRUE]

NoEq(k) == [key |-> k, price |-> 0, eq |-> FALSE, num |-> TRUE]

NotNumber(k) == [key |-> k, price |-> 0, eq |-> TRUE, num |-> FALSE]

PriceInputs ==
    {<< >>,
     <<Part("all", 500)>>, <<Part("all", -1)>>, <<NoEq("all")>>, <<NotNumber("all")>>,
     <<Part("all", 500), Part("all", 0)>>,
     <<Part("child", 200)>>, <<Part("child", 200), Part("adult", 500)>>,
     <<Part("adult", 500), Part("child", 0)>>,
     <<Part("child", NaN), Part("adult", 500)>>,
     <<Part("child", 200), Part("adult", 500), Part("all", 500)>>}

(* The loop of _parse_tier_prices over the parts: the dict out as a set of  *)
(* <<key, price>>, a later price of a key replacing the earlier one; ok is  *)
(* FALSE when a part raises ValueError                                      *)
RECURSIVE TierLoop(_, _, _)
TierLoop(parts, allowed_keys, out) ==
    IF parts = << >>
    THEN [ok |-> TRUE, out |-> out]
    ELSE LET p == Head(parts) IN
         IF ~p.eq \/ p.key \notin allowed_keys \/ ~p.num \/ Negative(p.price)
         THEN [ok |-> FALSE, out |-> {}]
         ELSE TierLoop(Tail(parts), allowed_keys,
                       {kv \in out : kv[1] # p.key} \cup {<<p.key, p.price>>})

_parse_tier_prices(parts, allowed_keys) ==
    IF parts = << >>
    THEN [ok |-> FALSE, out |-> {}]
    ELSE LET res == TierLoop(parts, allowed_keys, {}) IN
         IF res.ok /\ \E k \in allowed_keys : \A kv \in res.out : kv[1] # k
         THEN [ok |-> FALSE, out |-> {}]
         ELSE res

(* With a price mode chosen (it always is once admission_price_mode was     *)
(* passed) the text is read as tier prices.                                 *)
organizer_admission_price(parts) ==
    /\ Sequential
    /\ wstate = "admission_price"
    /\ wdata.admission_price_mode \in PriceModes
    /\ LET tiers == _parse_tier_prices(parts, PRICE_TIER_PRESETS[wdata.admission_price_mode]) IN
       IF ~tiers.ok
       THEN Reprompt("bad_prices")
       ELSE Handled("free_kids_question",
                    [wdata EXCEPT !.admission_price = tiers.out,
                                  !.keys = @ \cup {"admission_price"}],
                    "ask_free_kids")

(* calculate_price as _finish_pricing_and_preview calls it: by period when  *)
(* both ends are in the data, else for one post; PricingError is caught and *)
(* kept as the placement's error.                                           *)
Placement(d) ==
    IF d.period_start # 0 /\ d.period_end # 0
    THEN IF d.category = "EXHIBITION" THEN "period" ELSE "error"
    ELSE IF d.category = "EXHIBITION" THEN "error" ELSE "daily"

(* _finish_pricing_and_preview: update_data(placement), update_data(photo_file_ids=[]), *)
(* set_state(OrganizerEvent.photos)                                                      *)
_finish_pricing_and_preview(d) ==
    Handled("photos",
            [d EXCEPT !.placement = Placement(d), !.photo_file_ids = << >>,
                      !.keys = @ \cup {"placement", "photo_file_ids"}],
            "ask_photos")

free_kids_no ==
    /\ Sequential
    /\ wstate = "free_kids_question"
    /\ _finish_pricing_and_preview(
          [wdata EXCEPT !.free_kids_upto_age = -1, !.keys = @ \cup {"free_kids_upto_age"}])

free_kids_yes_skips ==
    /\ Sequential
    /\ wstate = "free_kids_question"
    /\ Handled("confirm", wdata, "preview")

(* org_free_kids:yes: set_state(OrganizerEvent.free_kids_age) *)
free_kids_yes ==
    /\ Sequential
    /\ wstate = "free_kids_question"
    /\ Handled("free_kids_age", wdata, "ask_age")

(* The age text as int() reads it; NotInt when int() raises *)
NotInt == -100

AgeInputs == {NotInt, -1, 0, 6, MaxFreeKidsAge, MaxFreeKidsAge + 1}

free_kids_age(age) ==
    /\ Sequential
    /\ wstate = "free_kids_age"
    /\ IF age = NotInt \/ age < 0 \/ age > MaxFreeKidsAge
       THEN Reprompt("bad_age")
       ELSE _finish_pricing_and_preview(
               [wdata EXCEPT !.free_kids_upto_age = age, !.keys = @ \cup {"free_kids_upto_age"}])

(* message.photo[-1].file_id of a photo message; NoPhoto for any other message *)
FileIds == {"a", "b"}

NoPhoto == ""

organizer_photos_collect(file_id) ==
    /\ Sequential
    /\ wstate = "photos"
    /\ IF file_id = NoPhoto
       THEN Reprompt("not_a_photo")
       ELSE IF Len(wdata.photo_file_ids) >= MaxPhotos
            THEN Reprompt("photo_limit")
            ELSE Handled("photos",
                         [wdata EXCEPT !.photo_file_ids = Append(@, file_id)],
                         "photo_added")

organizer_photos_pop ==
    /\ Sequential
    /\ wstate = "photos"
    /\ IF wdata.photo_file_ids = << >>
       THEN Reprompt("no_photos")
       ELSE Handled("photos",
                    [wdata EXCEPT !.photo_file_ids = SubSeq(@, 1, Len(@) - 1)],
                    "photo_removed")

(* org_photos:done / org_photos:skip *)
organizer_photos_done ==
    /\ Sequential
    /\ wstate = "photos"
    /\ Handled("confirm", wdata, "preview")

(* ---------------------------------------------------------------- confirm *)
EventPhotos_from_zero(photo_ids) ==
    [i \in 1..(IF Len(photo_ids) < MaxPhotos THEN Len(photo_ids) ELSE MaxPhotos) |->
        [file_id |-> photo_ids[i], position |-> i - 1]]

(* The EventPhoto rows organizer_confirm adds, in insertion order:          *)
(* enumerate(photo_ids[:5], start=1)                                        *)
EventPhotos(photo_ids) ==
    [i \in 1..(IF Len(photo_ids) < MaxPhotos THEN Len(photo_ids) ELSE MaxPhotos) |->
        [file_id |-> photo_ids[i], position |-> i]]

(* The Event row organizer_confirm adds, in the columns the claims read *)
SubmittedEvent(id, data) ==
    [id |-> id, user_id |-> OrganizerUser, city_slug |-> data.city_slug,
     title |-> data.title, category |-> data.category, description |-> data.description,
     contact_phone |-> data.contact, location |-> data.location,
     admission_price_json |-> data.admission_price,
     free_kids_upto_age |-> data.free_kids_upto_age,
     event_date |-> data.event_date,
     event_time_start |-> data.time_start, event_time_end |-> data.time_end,
     period_start |-> data.period_start, period_end |-> data.period_end,
     status |-> PENDING_MODERATION, payment_status |-> PENDING,
     reject_reason |-> NoReason, photos |-> EventPhotos(data.photo_file_ids)]

(* The keys organizer_confirm reads with data[...]: a missing one raises KeyError *)
RequiredKeys == {"city_slug", "title", "description", "location", "contact", "category"}

InProgress_ignored(data) == data.confirm_in_progress /\ data.keys = {}

(* data.get("_confirm_in_progress") *)
InProgress(data) == data.confirm_in_progress

organizer_confirm_no_persists ==
    /\ Sequential
    /\ wstate = "confirm"
    /\ wstate' = NoState
    /\ wdata' = NoData
    /\ wreply' = "cancelled"
    /\ stored' = Append(stored, [SubmittedEvent(Len(stored) + 1, wdata) EXCEPT !.status = DRAFT])
    /\ UNCHANGED <<wtasks, notices>>
    /\ UNCHANGED mvars

(* org_confirm:no: state.clear() *)
organizer_confirm_no ==
    /\ Sequential
    /\ wstate = "confirm"
    /\ Handled(NoState, NoData, "cancelled")

(* org_confirm:yes up to its first await of the database: get_data, the     *)
(* in-progress check and update_data run without suspending on the memory   *)
(* storage.  The handler goes on with the data it read.                     *)
organizer_confirm ==
    /\ wstate = "confirm"
    /\ Len(wtasks) < MaxTasks
    /\ LET data == wdata IN
       IF InProgress(data)
       THEN Reprompt("already_submitting")
       ELSE /\ wdata' = [wdata EXCEPT !.confirm_in_progress = TRUE]
            /\ wtasks' = Append(wtasks, [pc |-> "db", data |-> data, event_id |-> 0, todo |-> {}])
            /\ UNCHANGED <<wstate, stored, notices, wreply>>
            /\ UNCHANGED mvars

Without(tasks_, i) == SubSeq(tasks_, 1, i - 1) \o SubSeq(tasks_, i + 1, Len(tasks_))

(* The get_db block: the User upsert, the Event, its photos, one commit; a  *)
(* KeyError before it ends the handler with the flag left set.              *)
organizer_confirm_db(i) ==
    /\ wtasks[i].pc = "db"
    /\ IF ~(RequiredKeys \subseteq wtasks[i].data.keys)
       THEN /\ wtasks' = Without(wtasks, i)
            /\ UNCHANGED <<wstate, wdata, stored, notices, wreply>>
       ELSE LET event_id == Len(stored) + 1 IN
            /\ stored' = Append(stored, SubmittedEvent(event_id, wtasks[i].data))
            /\ wtasks' = [wtasks EXCEPT ![i].pc = "notify", ![i].event_id = event_id,
                                        ![i].todo = ADMIN_IDS]
            /\ UNCHANGED <<wstate, wdata, notices, wreply>>
    /\ UNCHANGED mvars

(* for admin_id in ADMIN_IDS, in the order of the list *)
NextAdmin(todo) == CHOOSE a \in todo : \A b \in todo : a <= b

organizer_confirm_notify_raises(i, delivered) ==
    /\ wtasks[i].pc = "notify"
    /\ wtasks[i].todo # {}
    /\ LET admin_id == NextAdmin(wtasks[i].todo) IN
       /\ notices' = Append(notices, [event_id |-> wtasks[i].event_id, admin_id |-> admin_id,
                                      delivered |-> delivered])
       /\ wtasks' = IF delivered
                    THEN [wtasks EXCEPT ![i].todo = @ \ {admin_id}]
                    ELSE Without(wtasks, i)
    /\ UNCHANGED <<wstate, wdata, stored, wreply>>
    /\ UNCHANGED mvars

(* One send of the moderation card; an exception of the send is swallowed *)
organizer_confirm_notify(i, delivered) ==
    /\ wtasks[i].pc = "notify"
    /\ wtasks[i].todo # {}
    /\ LET admin_id == NextAdmin(wtasks[i].todo) IN
       /\ notices' = Append(notices, [event_id |-> wtasks[i].event_id, admin_id |-> admin_id,
                                      delivered |-> delivered])
       /\ wtasks' = [wtasks EXCEPT ![i].todo = @ \ {admin_id}]
    /\ UNCHANGED <<wstate, wdata, stored, wreply>>
    /\ UNCHANGED mvars

(* After the loop: state.clear() and the answer to the organizer *)
organizer_confirm_finish(i) ==
    /\ wtasks[i].pc = "notify"
    /\ wtasks[i].todo = {}
    /\ wstate' = NoState
    /\ wdata' = NoData
    /\ wreply' = "submitted"
    /\ wtasks' = Without(wtasks, i)
    /\ UNCHANGED <<stored, notices>>
    /\ UNCHANGED mvars

(* ----------------------------------------------------------- specification *)
(* organizer_confirm: Event(status=PENDING_MODERATION, payment_status=PENDING), *)
(* reject_reason None                                                          *)
NewEvent ==
    [user_id |-> OrganizerUser, status |-> PENDING_MODERATION,
     payment_status |-> PENDING, reject_reason |-> NoReason]

Init ==
    /\ events = [e \in EventIds |-> NewEvent]
    /\ payments = << >>
    /\ tasks = EmptyBag
    /\ fsm = [u \in Users |-> NoFsm]
    /\ fanout = [e \in EventIds |-> 0]
    /\ last = NoAnswer
    /\ quota = [k \in UpdateKinds |-> Unbounded]
    /\ NoWizard
    /\ today = FirstDay
    /\ users = {}
    /\ push = NoPush
    /\ pricing = NoPricing

Next ==
    \/ \E u \in Users, e \in CallbackEventIds : AdminApprove(u, e)
    \/ \E rec \in Running : AdminApproveCommit(rec)
    \/ \E u \in Users, e \in CallbackEventIds : AdminRejectStart(u, e)
    \/ \E u \in Users, text \in ReasonInputs : AdminRejectReason(u, text)
    \/ \E rec \in Running : AdminRejectReasonCommit(rec)
    \/ \E u \in Users, e \in CallbackEventIds : PayStart(u, e)
    \/ \E rec \in Running : PayStartGateway(rec)
    \/ \E rec \in Running : PayStartCommitPaid(rec)
    \/ \E rec \in Running : PayStartCommit(rec)
    \/ \E u \in Users, e \in CallbackEventIds : PayTest(u, e)
    \/ \E rec \in Running : PayTestReadPayment(rec)
    \/ \E rec \in Running : PayTestCommit(rec)
    \/ \E rec \in Running : PayTestNotify(rec)
    \/ \E tx \in WebhookTxIds, ty \in WebhookEventTypes, st \in WebhookStatuses :
          Webhook(tx, ty, st)
    \/ \E rec \in Running : WebhookReadEvent(rec)
    \/ \E rec \in Running : WebhookNotify(rec)
    \/ \E rec \in Running : WebhookCommit(rec)
    \/ \E rec \in Running : DbLocked(rec)
    \/ Deliver

Spec == Init /\ [][Next]_vars

(* The race of the two payment confirmations: an Event approved and waiting for *)
(* payment, its Payment started at the gateway; the owner's test confirmation   *)
(* and the gateway's success webhook arrive once each, in any order.            *)
RaceEvent == CHOOSE e \in EventIds : TRUE

(* The Event was approved at once, or rejected first and approved afterwards    *)
(* (admin_approve keeps reject_reason); its Payment is as organizer_pay_start    *)
(* left it, or cancelled since by a cancel webhook.                             *)
InitRace ==
    /\ \E reason \in {NoReason, <<"x", "x", "x">>} :
          events = [e \in EventIds |->
                      [NewEvent EXCEPT !.status = APPROVED_WAITING_PAYMENT,
                                       !.reject_reason = reason]]
    /\ \E st \in {PENDING, CANCELLED} :
          payments = <<[GatewayPayment(RaceEvent) EXCEPT !.status = st]>>
    /\ tasks = EmptyBag
    /\ fsm = [u \in Users |-> NoFsm]
    /\ fanout = [e \in EventIds |-> 0]
    /\ last = NoAnswer
    /\ quota = [k \in UpdateKinds |-> IF k \in {"pay_test", "webhook"} THEN 1 ELSE 0]
    /\ NoWizard
    /\ today = FirstDay
    /\ users = {}
    /\ push = NoPush
    /\ pricing = NoPricing

NextRace ==
    \/ PayTest(OrganizerUser, RaceEvent)
    \/ \E rec \in Running : PayTestReadPayment(rec)
    \/ \E rec \in Running : PayTestCommit(rec)
    \/ \E rec \in Running : PayTestNotify(rec)
    \/ Webhook(GatewayPaymentId(RaceEvent), "payment.succeeded", "succeeded")
    \/ \E rec \in Running : WebhookReadEvent(rec)
    \/ \E rec \in Running : WebhookNotify(rec)
    \/ \E rec \in Running : WebhookCommit(rec)
    \/ \E rec \in Running : DbLocked(rec)
    \/ Deliver

SpecRace == InitRace /\ [][NextRace]_vars

RaceOver == tasks = EmptyBag /\ last = NoAnswer /\ \A k \in UpdateKinds : quota[k] = 0

(* C1: once the test confirmation and the success webhook for an Event that was *)
(* APPROVED_WAITING_PAYMENT have both run, in any order or interleaving, there  *)
(* is exactly one Payment row, it is COMPLETED, the Event is ACTIVE, and exactly *)
(* one fan-out has sent to the residents.                                       *)
C1_RaceConfirmsOnce ==
    RaceOver =>
        /\ Len(payments) = 1
        /\ payments[1].status = COMPLETED
        /\ events[RaceEvent].status = ACTIVE
        /\ fanout[RaceEvent] = 1

(* -------------------------------------------------- wizard specification *)
(* An Event submitted earlier, with one photo, is in the store; the         *)
(* organizer has no session.                                                 *)
EarlierData ==
    [NoData EXCEPT !.city_slug = "nojabrsk", !.category = "CONCERT",
                   !.title = Xs(MinTitleLen), !.description = Xs(MinDescriptionLen),
                   !.event_date = _parse_date(<<2, 1>>),
                   !.time_start = <<10, 0>>, !.time_end = <<20, 0>>,
                   !.location = Xs(MinLocationLen), !.contact = Xs(MinContactLen),
                   !.admission_price = {<<"all", 500>>},
                   !.photo_file_ids = <<"a">>]

EarlierEvent == SubmittedEvent(1, EarlierData)

InitWizard ==
    /\ events = [e \in EventIds |-> NewEvent]
    /\ payments = << >>
    /\ tasks = EmptyBag
    /\ fsm = [u \in Users |-> NoFsm]
    /\ fanout = [e \in EventIds |-> 0]
    /\ last = NoAnswer
    /\ quota = [k \in UpdateKinds |-> 0]
    /\ wstate = NoState
    /\ wdata = NoData
    /\ wtasks = << >>
    /\ stored = <<EarlierEvent>>
    /\ notices = << >>
    /\ wreply = "none"
    /\ today = FirstDay
    /\ users = {OrganizerRow(EarlierEvent.city_slug)}
    /\ push = NoPush
    /\ pricing = NoPricing

NextWizard ==
    \/ organizer_entry
    \/ organizer_back_message
    \/ \E slug \in CitySlugs : organizer_choose_city_from_bottom(slug)
    \/ \E code \in Categories : organizer_choose_category_from_bottom(code)
    \/ \E text \in TitleInputs : organizer_title(text)
    \/ \E text \in DescriptionInputs : organizer_description(text)
    \/ \E parts \in DateInputs : organizer_date_or_period(parts)
    \/ \E t \in TimeInputs : organizer_time_start(t)
    \/ \E t \in TimeInputs : organizer_time_end(t)
    \/ \E text \in LocationInputs : organizer_location(text)
    \/ \E text \in ContactInputs : organizer_contact(text)
    \/ \E mode \in PriceModeInputs : organizer_price_mode(mode)
    \/ \E parts \in PriceInputs : organizer_admission_price(parts)
    \/ free_kids_no
    \/ free_kids_yes
    \/ \E age \in AgeInputs : free_kids_age(age)
    \/ \E file_id \in FileIds \cup {NoPhoto} : organizer_photos_collect(file_id)
    \/ organizer_photos_pop
    \/ organizer_photos_done
    \/ organizer_confirm_no
    \/ organizer_confirm
    \/ \E i \in DOMAIN wtasks : organizer_confirm_db(i)
    \/ \E i \in DOMAIN wtasks, delivered \in BOOLEAN : organizer_confirm_notify(i, delivered)
    \/ \E i \in DOMAIN wtasks : organizer_confirm_finish(i)

SpecWizard == InitWizard /\ [][NextWizard]_vars

(* The get_db block of organizer_confirm raises: a flush or the commit fails  *)
(* (the store is locked or unreachable).  get_db rolls back and re-raises;   *)
(* nothing in the handler catches it and on_error only logs, so the handler  *)
(* ends there: no Event, the session and its data as update_data left them.  *)
organizer_confirm_db_raises(i) ==
    /\ wtasks[i].pc = "db"
    /\ wtasks' = Without(wtasks, i)
    /\ UNCHANGED <<wstate, wdata, stored, notices, wreply>>
    /\ UNCHANGED mvars

NextConfirm ==
    \/ NextWizard
    \/ \E i \in DOMAIN wtasks : organizer_confirm_db_raises(i)

SpecConfirm == InitWizard /\ [][NextConfirm]_vars

(* ------------------------------------------------------ fix and resubmit *)
(* select(EventPhoto).where(event_id == old).order_by(position.asc()): the *)
(* rows of an Event by ascending position                                   *)
RECURSIVE OrderByPosition(_)
OrderByPosition(rows) ==
    IF rows = << >>
    THEN << >>
    ELSE LET k == CHOOSE m \in DOMAIN rows :
                     \A n \in DOMAIN rows : rows[m].position <= rows[n].position
         IN  <<rows[k]>> \o OrderByPosition(Without(rows, k))

CopiedPhotos_reversed(old_photos) ==
    [idx \in 1..(IF Len(old_photos) < MaxPhotos THEN Len(old_photos) ELSE MaxPhotos) |->
        [file_id |-> old_photos[Len(old_photos) + 1 - idx].file_id, position |-> idx]]

(* enumerate(old_photos[:5], start=1): the copies of the first five rows *)
CopiedPhotos(old_photos) ==
    [idx \in 1..(IF Len(old_photos) < MaxPhotos THEN Len(old_photos) ELSE MaxPhotos) |->
        [file_id |-> old_photos[idx].file_id, position |-> idx]]

(* new_event: the listed columns of old_event, then status, payment_status *)
(* and reject_reason; its photos copied from the old ones                   *)
ResubmittedEvent(id, old_event) ==
    [id |-> id, user_id |-> old_event.user_id, city_slug |-> old_event.city_slug,
     title |-> old_event.title, category |-> old_event.category,
     description |-> old_event.description,
     contact_phone |-> old_event.contact_phone, location |-> old_event.location,
     admission_price_json |-> old_event.admission_price_json,
     free_kids_upto_age |-> old_event.free_kids_upto_age,
     event_date |-> old_event.event_date,
     event_time_start |-> old_event.event_time_start,
     event_time_end |-> old_event.event_time_end,
     period_start |-> old_event.period_start, period_end |-> old_event.period_end,
     status |-> PENDING_MODERATION, payment_status |-> PENDING,
     reject_reason |-> NoReason,
     photos |-> CopiedPhotos(OrderByPosition(old_event.photos))]

Resubmitted_in_place(store, old_event) ==
    Append([store EXCEPT ![old_event.id].reject_reason = NoReason],
           ResubmittedEvent(Len(store) + 1, old_event))

(* db.add(new_event) and its photos: the store after the commit *)
Resubmitted(store, old_event) ==
    Append(store, ResubmittedEvent(Len(store) + 1, old_event))

ResubmitRefusal_any_status(store, old_event_id, user_id) ==
    IF old_event_id \notin DOMAIN store
    THEN "not_found"
    ELSE IF store[old_event_id].user_id # user_id
         THEN "not_owner"
         ELSE ""

(* The checks of the handler on the loaded old_event: "" lets it go on *)
ResubmitRefusal(store, old_event_id, user_id) ==
    IF old_event_id \notin DOMAIN store
    THEN "not_found"
    ELSE IF store[old_event_id].user_id # user_id
         THEN "not_owner"
         ELSE IF store[old_event_id].status # REJECTED
              THEN "not_rejected"
              ELSE ""

(* org_fix:<id> arrives: the handler up to its first await in get_db *)
organizer_fix_and_resubmit(user_id, old_event_id) ==
    /\ Len(wtasks) < MaxTasks
    /\ Len(stored) <= MaxStored
    /\ wtasks' = Append(wtasks, [pc |-> "db", actor |-> user_id, old_event_id |-> old_event_id,
                                 event_id |-> 0, todo |-> {}])
    /\ UNCHANGED <<wstate, wdata, stored, notices, wreply>>
    /\ UNCHANGED mvars

(* The first get_db block: a refusal answers and returns, committing       *)
(* nothing; otherwise the copy and its photos are committed on exit.       *)
organizer_fix_and_resubmit_db(i) ==
    /\ wtasks[i].pc = "db"
    /\ LET refusal == ResubmitRefusal(stored, wtasks[i].old_event_id, wtasks[i].actor) IN
       IF refusal # ""
       THEN /\ wreply' = refusal
            /\ wtasks' = Without(wtasks, i)
            /\ UNCHANGED stored
       ELSE /\ stored' = Resubmitted(stored, stored[wtasks[i].old_event_id])
            /\ wtasks' = [wtasks EXCEPT ![i].pc = "answer", ![i].event_id = Len(stored) + 1]
            /\ UNCHANGED wreply
    /\ UNCHANGED <<wstate, wdata, notices>>
    /\ UNCHANGED mvars

(* The answer to the organizer, then the second get_db block that reads   *)
(* the first photo of the copy                                             *)
organizer_fix_and_resubmit_answer(i) ==
    /\ wtasks[i].pc = "answer"
    /\ wreply' = "resubmitted"
    /\ wtasks' = [wtasks EXCEPT ![i].pc = "notify", ![i].todo = ADMIN_IDS]
    /\ UNCHANGED <<wstate, wdata, stored, notices>>
    /\ UNCHANGED mvars

(* One send to an administrator, its exception swallowed *)
organizer_fix_and_resubmit_notify(i, delivered) ==
    /\ wtasks[i].pc = "notify"
    /\ wtasks[i].todo # {}
    /\ LET admin_id == NextAdmin(wtasks[i].todo) IN
       /\ notices' = Append(notices, [event_id |-> wtasks[i].event_id, admin_id |-> admin_id,
                                      delivered |-> delivered])
       /\ wtasks' = [wtasks EXCEPT ![i].todo = @ \ {admin_id}]
    /\ UNCHANGED <<wstate, wdata, stored, wreply>>
    /\ UNCHANGED mvars

(* callback.answer() after the loop *)
organizer_fix_and_resubmit_finish(i) ==
    /\ wtasks[i].pc = "notify"
    /\ wtasks[i].todo = {}
    /\ wtasks' = Without(wtasks, i)
    /\ UNCHANGED <<wstate, wdata, stored, notices, wreply>>
    /\ UNCHANGED mvars

(* The Events an organizer may hold a "fix and resubmit" button for, or    *)
(* forge a callback for: an earlier submission of either user, moderated   *)
(* or not, with no photo, two or five                                      *)
ExhibitionData ==
    [EarlierData EXCEPT !.category = "EXHIBITION", !.event_date = 0,
                        !.period_start = _parse_date(<<2, 1>>),
                        !.period_end = _parse_date(<<1, 2>>),
                        !.admission_price = {<<"child", 0>>, <<"adult", 500>>},
                        !.free_kids_upto_age = 6]

OriginalPhotoLists == {<< >>, <<"b", "a">>, <<"a", "b", "a", "a", "b">>}

OriginalEvents ==
    {[SubmittedEvent(1, [data EXCEPT !.photo_file_ids = photo_ids])
         EXCEPT !.user_id = owner, !.status = status,
                !.payment_status = IF status = ACTIVE THEN COMPLETED ELSE PENDING,
                !.reject_reason = IF status = REJECTED THEN Xs(MinReasonLen) ELSE NoReason] :
       data \in {EarlierData, ExhibitionData}, photo_ids \in OriginalPhotoLists,
       owner \in Users, status \in EventStatus}

InitResubmit ==
    /\ events = [e \in EventIds |-> NewEvent]
    /\ payments = << >>
    /\ tasks = EmptyBag
    /\ fsm = [u \in Users |-> NoFsm]
    /\ fanout = [e \in EventIds |-> 0]
    /\ last = NoAnswer
    /\ quota = [k \in UpdateKinds |-> 0]
    /\ wstate = NoState
    /\ wdata = NoData
    /\ wtasks = << >>
    /\ \E original \in OriginalEvents : stored = <<original>>
    /\ notices = << >>
    /\ wreply = "none"
    /\ today = FirstDay
    /\ users = {OrganizerRow(EarlierEvent.city_slug)}
    /\ push = NoPush
    /\ pricing = NoPricing

(* The ids a callback may name: the Events of the store and one that is missing *)
ResubmitIds == 1..(MaxStored + 2)

NextResubmit ==
    \/ \E u \in Users, id \in ResubmitIds : organizer_fix_and_resubmit(u, id)
    \/ \E i \in DOMAIN wtasks : organizer_fix_and_resubmit_db(i)
    \/ \E i \in DOMAIN wtasks : organizer_fix_and_resubmit_answer(i)
    \/ \E i \in DOMAIN wtasks, delivered \in BOOLEAN : organizer_fix_and_resubmit_notify(i, delivered)
    \/ \E i \in DOMAIN wtasks : organizer_fix_and_resubmit_finish(i)

SpecResubmit == InitResubmit /\ [][NextResubmit]_vars

(* ------------------------------------------------------ the archival sweep *)
(* archive_expired_events: one UPDATE over the Event table, run by main() at  *)
(* start-up with today = date.today(). It is the only writer of ARCHIVED.     *)
SweepDays == {_parse_date(<<1, 1>>), _parse_date(<<2, 1>>), _parse_date(<<1, 2>>)}

(* and_(column.is_not(None), column < today); 0 stands for None *)
Expired_inclusive(column) == column # 0 /\ column <= today

Expired(column) == column # 0 /\ column < today

Archivable(ev) ==
    /\ ev.status = ACTIVE
    /\ (Expired(ev.event_date) \/ Expired(ev.period_end))

archive_expired_events ==
    /\ stored' = [k \in DOMAIN stored |->
                    IF Archivable(stored[k])
                    THEN [stored[k] EXCEPT !.status = ARCHIVED]
                    ELSE stored[k]]
    /\ UNCHANGED <<wstate, wdata, wtasks, notices, wreply>>
    /\ UNCHANGED mvars

(* The calendar moves on between two starts of the bot *)
date_today(later) ==
    /\ later > today
    /\ today' = later
    /\ UNCHANGED <<wstate, wdata, wtasks, stored, notices, wreply, users, push, pricing>>
    /\ UNCHANGED <<events, payments, tasks, fsm, fanout, last, quota>>

(* Events as the wizard stores them, one dated and one with a period, in any *)
(* status a handler can have given them before the first sweep                *)
DatedEvents ==
    {[SubmittedEvent(1, [EarlierData EXCEPT !.event_date = day])
         EXCEPT !.status = status,
                !.payment_status = IF status = ACTIVE THEN COMPLETED ELSE PENDING] :
       day \in SweepDays, status \in EventStatus \ {ARCHIVED}}

PeriodEvents ==
    {[SubmittedEvent(2, [ExhibitionData EXCEPT !.period_start = _parse_date(<<1, 1>>),
                                               !.period_end = day])
         EXCEPT !.status = status,
                !.payment_status = IF status = ACTIVE THEN COMPLETED ELSE PENDING] :
       day \in SweepDays, status \in EventStatus \ {ARCHIVED}}

InitArchive ==
    /\ events = [e \in EventIds |-> NewEvent]
    /\ payments = << >>
    /\ tasks = EmptyBag
    /\ fsm = [u \in Users |-> NoFsm]
    /\ fanout = [e \in EventIds |-> 0]
    /\ last = NoAnswer
    /\ quota = [k \in UpdateKinds |-> 0]
    /\ wstate = NoState
    /\ wdata = NoData
    /\ wtasks = << >>
    /\ \E dated \in DatedEvents, period \in PeriodEvents : stored = <<dated, period>>
    /\ notices = << >>
    /\ wreply = "none"
    /\ today \in SweepDays
    /\ users = {}
    /\ push = NoPush
    /\ pricing = NoPricing

NextArchive ==
    \/ archive_expired_events
    \/ \E later \in SweepDays : date_today(later)

SpecArchive == InitArchive /\ [][NextArchive]_vars

(* ------------------------------------------------------ the publish fan-out *)
(* select(User.telegram_id).where(User.city_slug == city_slug)                *)
(*                         .where(User.last_seen_at.is_not(None))             *)
_fetch_recipients(city_slug) ==
    IF Mapped("city_slug") /\ Mapped("last_seen_at")
    THEN [raised |-> FALSE,
          ids |-> {u.telegram_id : u \in {v \in users : /\ v.city_slug = city_slug
                                                        /\ v.last_seen_at # 0}}]
    ELSE [raised |-> TRUE, ids |-> {}]

(* select(Event).where(Event.id == event_id), read in a session of its own *)
_fetch_event(event_id) ==
    IF event_id \in DOMAIN stored THEN {stored[event_id]} ELSE {}

(* for uid in recipients: the organizer is skipped, every other send is tried *)
(* inside its own try/except                                                  *)
RECURSIVE SendLoop(_, _, _)
SendLoop(event, recipients, failing) ==
    IF recipients = {}
    THEN << >>
    ELSE LET uid == CHOOSE r \in recipients : \A q \in recipients : r <= q
             rest == SendLoop(event, recipients \ {uid}, failing)
         IN  IF uid = event.user_id
             THEN rest
             ELSE <<[event_id |-> event.id, uid |-> uid, delivered |-> uid \notin failing]>>
                  \o rest

(* sent += 1, failed += 1, skipped += 1 as the loop goes; len(recipients) *)
RECURSIVE CountLoop(_, _, _, _)
CountLoop(event, recipients, failing, counts) ==
    IF recipients = {}
    THEN counts
    ELSE LET uid == CHOOSE r \in recipients : \A q \in recipients : r <= q
         IN  CountLoop(event, recipients \ {uid}, failing,
                       IF uid = event.user_id THEN [counts EXCEPT !.skipped = @ + 1]
                       ELSE IF uid \in failing THEN [counts EXCEPT !.failed = @ + 1]
                       ELSE [counts EXCEPT !.sent = @ + 1])

notify_new_event_published(event_id, failing) ==
    /\ push.result = "none"
    /\ LET found == _fetch_event(event_id) IN
       IF found = {} \/ (\E event \in found : event.status # ACTIVE)
       THEN push' = [push EXCEPT !.event_id = event_id, !.result = "skipped",
                                 !.counts = [NoCounts EXCEPT !.skipped = 1]]
       ELSE LET event == CHOOSE ev \in found : TRUE
                recipients == _fetch_recipients(event.city_slug)
            IN  IF recipients.raised
                THEN push' = [push EXCEPT !.event_id = event_id, !.result = "AttributeError"]
                ELSE IF recipients.ids = {}
                     THEN push' = [push EXCEPT !.event_id = event_id,
                                                     !.result = "no_recipients"]
                     ELSE push' = [event_id |-> event_id,
                                   attempts |-> SendLoop(event, recipients.ids, failing),
                                   result |-> "done",
                                   counts |-> CountLoop(event, recipients.ids, failing,
                                                 [NoCounts EXCEPT !.recipients =
                                                     Cardinality(recipients.ids)])]
    /\ UNCHANGED <<wstate, wdata, wtasks, stored, notices, wreply, today, users, pricing>>
    /\ UNCHANGED <<events, payments, tasks, fsm, fanout, last, quota>>

(* The organizer and two residents, each in one of the two cities and seen or *)
(* never seen; the Event of the organizer in any status                       *)
Residents == {4, 5}

UserRows(telegram_id) ==
    {[telegram_id |-> telegram_id, city_slug |-> city, last_seen_at |-> seen] :
       city \in CitySlugs, seen \in {0, 1}}

PublishedEvents ==
    {[EarlierEvent EXCEPT !.status = status,
                          !.payment_status = IF status = ACTIVE THEN COMPLETED ELSE PENDING] :
       status \in EventStatus}

InitFanout ==
    /\ events = [e \in EventIds |-> NewEvent]
    /\ payments = << >>
    /\ tasks = EmptyBag
    /\ fsm = [u \in Users |-> NoFsm]
    /\ fanout = [e \in EventIds |-> 0]
    /\ last = NoAnswer
    /\ quota = [k \in UpdateKinds |-> 0]
    /\ wstate = NoState
    /\ wdata = NoData
    /\ wtasks = << >>
    /\ \E event \in PublishedEvents : stored = <<event>>
    /\ notices = << >>
    /\ wreply = "none"
    /\ today = FirstDay
    /\ \E organizer \in UserRows(OrganizerUser), first \in UserRows(4), second \in UserRows(5) :
          users = {organizer, first, second}
    /\ push = NoPush
    /\ pricing = NoPricing

NextFanout ==
    \E event_id \in {1, 2}, failing \in SUBSET Residents :
        notify_new_event_published(event_id, failing)

SpecFanout == InitFanout /\ [][NextFanout]_vars

(* ------------------------------------------------------- the pricing engine *)
(* A package key is the text of the dict key, one character per element *)
Digits == <<"0", "1", "2", "3", "4", "5", "6", "7", "8", "9">>

IsDigit(c) == \E d \in DOMAIN Digits : Digits[d] = c

DigitValue(c) == (CHOOSE d \in DOMAIN Digits : Digits[d] = c) - 1

(* raise ValueError(f"Bad package key: {key}") *)
BadKey == -1

RECURSIVE SkipSpaces(_)
SkipSpaces(text) ==
    IF text # << >> /\ Head(text) = " " THEN SkipSpaces(Tail(text)) ELSE text

RECURSIVE LeadingDigits(_, _)
LeadingDigits(text, value) ==
    IF text # << >> /\ IsDigit(Head(text))
    THEN LeadingDigits(Tail(text), 10 * value + DigitValue(Head(text)))
    ELSE value

(* re.match(r"^\s*(\d+)", str(key)) and int() of the group *)
_extract_int_prefix(key) ==
    LET text == SkipSpaces(key)
    IN  IF text # << >> /\ IsDigit(Head(text)) THEN LeadingDigits(text, 0) ELSE BadKey

(* str(n) of a non-negative integer *)
RECURSIVE str(_)
str(n) == IF n < 10 THEN <<Digits[n + 1]>> ELSE str(n \div 10) \o <<Digits[(n % 10) + 1]>>

(* round(numerator / denominator): to the nearest integer, a half to the even one *)
round(numerator, denominator) ==
    LET quotient == numerator \div denominator
        twice == 2 * (numerator % denominator)
    IN  IF twice < denominator THEN quotient
        ELSE IF twice > denominator THEN quotient + 1
        ELSE IF quotient % 2 = 0 THEN quotient ELSE quotient + 1

Package(key, price) == [key |-> key, price |-> price]

_post == <<"_", "p", "o", "s", "t">>

_posts == <<"_", "p", "o", "s", "t", "s">>

_day == <<"_", "d", "a", "y">>

_days == <<"_", "d", "a", "y", "s">>

Daily(packages) == [model |-> "daily", packages |-> packages, base_price_per_item |-> {}]

(* "base_price_per_day": 150 of the period category *)
Period(packages) == [model |-> "period", packages |-> packages, base_price_per_day |-> {150}]

(* config.py as it stands: one package in every category *)
PRICING_CONFIG ==
    ("EXHIBITION" :> Period(<<Package(<<"1">> \o _day, 1799)>>))
    @@ ("MASTERCLASS" :> Daily(<<Package(<<"1">> \o _post, 699)>>))
    @@ ("CONCERT" :> Daily(<<Package(<<"1">> \o _post, 1499)>>))
    @@ ("PERFORMANCE" :> Daily(<<Package(<<"1">> \o _day, 499)>>))
    @@ ("LECTURE" :> Daily(<<Package(<<"1">> \o _post, 499)>>))
    @@ ("OTHER" :> Daily(<<Package(<<"1">> \o _day, 599)>>))

(* config.py with the packages it lists in comments switched on *)
TieredConfig ==
    [PRICING_CONFIG EXCEPT
       !["EXHIBITION"] = Period(<<Package(<<"1">> \o _day, 1799), Package(<<"3">> \o _days, 499),
                                 Package(<<"7">> \o _days, 999),
                                 Package(<<"1", "4">> \o _days, 1699),
                                 Package(<<"3", "0">> \o _days, 3299)>>),
       !["MASTERCLASS"] = Daily(<<Package(<<"1">> \o _post, 699), Package(<<"3">> \o _posts, 499),
                               Package(<<"5">> \o _posts, 699),
                               Package(<<"1", "0">> \o _posts, 1099)>>),
       !["CONCERT"] = Daily(<<Package(<<"1">> \o _post, 1499), Package(<<"3">> \o _posts, 3499),
                           Package(<<"5">> \o _posts, 6099),
                           Package(<<"1", "0">> \o _posts, 10999)>>),
       !["PERFORMANCE"] = Daily(<<Package(<<"1">> \o _day, 499), Package(<<"3">> \o _days, 499),
                               Package(<<"7">> \o _days, 999),
                               Package(<<"1", "4">> \o _days, 1699),
                               Package(<<"3", "0">> \o _days, 3299)>>),
       !["LECTURE"] = Daily(<<Package(<<"1">> \o _post, 499), Package(<<"3">> \o _posts, 199),
                           Package(<<"5">> \o _posts, 299),
                           Package(<<"1", "0">> \o _posts, 549)>>)]

(* The same packages written in another order, bare numbers as keys, a base  *)
(* price per item, no packages at all and a key without a number             *)
EditedConfig ==
    [PRICING_CONFIG EXCEPT
       !["EXHIBITION"] = [Period(<<Package(<<"7">> \o _days, 999), Package(<<"1">> \o _day, 1799),
                                  Package(<<" ", "3", " ">> \o _days, 499)>>)
                          EXCEPT !.base_price_per_day = {}],
       !["MASTERCLASS"] = Daily(<<Package(<<" ", "5">>, 699), Package(<<"1">>, 699),
                               Package(<<"1", "0">>, 1099), Package(<<"3">>, 499)>>),
       !["CONCERT"] = Daily(<<Package(<<"1", "0">> \o _posts, 10999),
                           Package(<<"1">> \o _post, 1499),
                           Package(<<"5">> \o _posts, 6099),
                           Package(<<"3">> \o _posts, 3499)>>),
       !["PERFORMANCE"] = [Daily(<<Package(<<"3">> \o _days, 499), Package(<<"1">> \o _day, 499)>>)
                           EXCEPT !.base_price_per_item = {150}],
       !["LECTURE"] = Daily(<< >>),
       !["OTHER"] = Daily(<<Package(<<"d", "a", "y">>, 599)>>)]

(* The tiered table with a flat price per extra item, below the unit price of the *)
(* largest package as a bulk price is; a period key without a number             *)
FlatConfig ==
    [TieredConfig EXCEPT
       !["CONCERT"].base_price_per_item = {999},
       !["MASTERCLASS"].base_price_per_item = {1100},
       !["EXHIBITION"] = Period(<<Package(<<"1">> \o _day, 1799),
                                 Package(<<"w", "e", "e", "k">>, 999)>>)]

PricingTables ==
    [deployed |-> PRICING_CONFIG, tiered |-> TieredConfig, edited |-> EditedConfig,
     flat |-> FlatConfig]

Raised(error) == [NoResult EXCEPT !.raised = error]

(* {"package_name": ..., "price": ..., "num_items": ..., "model": "daily", "total_price": ...} *)
Priced(package_name, price, num_posts) ==
    [raised |-> "", package_name |-> package_name, price |-> price, num_items |-> num_posts,
     num_days |-> 0, hundredths |-> 0, model |-> "daily", total_price |-> price]

(* limits.append((n, key)) for every key, in the order of the dict *)
Limits(packages) ==
    [k \in DOMAIN packages |->
        [limit_posts |-> _extract_int_prefix(packages[k].key), key |-> packages[k].key,
         price |-> packages[k].price]]

RECURSIVE Insert(_, _)
Insert(sorted, item) ==
    IF sorted = << >>
    THEN <<item>>
    ELSE IF item.limit_posts < Head(sorted).limit_posts
         THEN <<item>> \o sorted
         ELSE <<Head(sorted)>> \o Insert(Tail(sorted), item)

(* limits.sort(key=lambda x: x[0]): ascending, equal limits keep their order *)
RECURSIVE Sort(_)
Sort(limits) ==
    IF limits = << >>
    THEN << >>
    ELSE Insert(Sort(SubSeq(limits, 1, Len(limits) - 1)), limits[Len(limits)])

(* the loop with the comparison num_posts < limit_posts *)
RECURSIVE FirstFit_exclusive(_, _)
FirstFit_exclusive(limits, num_posts) ==
    IF limits = << >>
    THEN << >>
    ELSE IF num_posts < Head(limits).limit_posts
         THEN <<Head(limits)>>
         ELSE FirstFit_exclusive(Tail(limits), num_posts)

(* for limit_posts, key in limits: if num_posts <= limit_posts: return ... *)
RECURSIVE FirstFit(_, _)
FirstFit(limits, num_posts) ==
    IF limits = << >>
    THEN << >>
    ELSE IF num_posts <= Head(limits).limit_posts
         THEN <<Head(limits)>>
         ELSE FirstFit(Tail(limits), num_posts)

_calculate_daily_price(config, num_posts) ==
    IF num_posts <= 0 \/ config.packages = << >>
    THEN Raised("ValueError")
    ELSE LET unsorted == Limits(config.packages) IN
         IF \E k \in DOMAIN unsorted : unsorted[k].limit_posts = BadKey
         THEN Raised("ValueError")
         ELSE LET limits == Sort(unsorted)
                  fit == FirstFit(limits, num_posts)
                  largest == limits[Len(limits)]
                  custom == <<"c", "u", "s", "t", "o", "m", "_">> \o str(num_posts) \o _posts
              IN  IF fit # << >>
                  THEN Priced(fit[1].key, fit[1].price, num_posts)
                  ELSE IF config.base_price_per_item # {}
                       THEN Priced(custom,
                                   (CHOOSE base \in config.base_price_per_item : TRUE) * num_posts,
                                   num_posts)
                       ELSE IF largest.limit_posts = 0
                            THEN Raised("ZeroDivisionError")
                            ELSE Priced(custom,
                                        round(largest.price * num_posts, largest.limit_posts),
                                        num_posts)

(* A date is month * 100 + day of one year, as _parse_date gives it *)
RECURSIVE DaysBefore(_)
DaysBefore(month) == IF month = 1 THEN 0 ELSE DaysBefore(month - 1) + DaysIn(month - 1)

toordinal(date) == DaysBefore(date \div 100) + (date % 100)

(* (end_date - start_date).days + 1 *)
NumDays_exclusive(start_date, end_date) == toordinal(end_date) - toordinal(start_date)

NumDays(start_date, end_date) == toordinal(end_date) - toordinal(start_date) + 1

(* key.split("_")[0] *)
RECURSIVE BeforeUnderscore(_)
BeforeUnderscore(key) ==
    IF key = << >> \/ Head(key) = "_" THEN << >>
    ELSE <<Head(key)>> \o BeforeUnderscore(Tail(key))

RECURSIVE StripRight(_)
StripRight(text) ==
    IF text # << >> /\ text[Len(text)] = " " THEN StripRight(SubSeq(text, 1, Len(text) - 1))
    ELSE text

(* int(text): surrounding blanks are ignored, anything but decimal digits is a ValueError *)
int(text) ==
    LET digits == StripRight(SkipSpaces(text))
    IN  IF digits # << >> /\ \A k \in DOMAIN digits : IsDigit(digits[k])
        THEN LeadingDigits(digits, 0)
        ELSE BadKey

PeriodLimits(packages) ==
    [k \in DOMAIN packages |->
        [limit_posts |-> int(BeforeUnderscore(packages[k].key)), key |-> packages[k].key,
         price |-> packages[k].price]]

(* {"package_name": ..., "price": ..., "num_days": ..., "model": "period", "total_price": ...} *)
PricedPeriod(package_name, price, hundredths, num_days) ==
    [raised |-> "", package_name |-> package_name, price |-> price, num_items |-> 0,
     num_days |-> num_days, hundredths |-> hundredths, model |-> "period",
     total_price |-> price]

DefaultBasePricePerDay == 150

_calculate_period_price(config, start_date, end_date) ==
    LET num_days == NumDays(start_date, end_date)
        unsorted == PeriodLimits(config.packages)
    IN  IF \E k \in DOMAIN unsorted : unsorted[k].limit_posts = BadKey
        THEN Raised("ValueError")
        ELSE LET fit == FirstFit(Sort(unsorted), num_days)
                 base_price == IF config.base_price_per_day = {} THEN DefaultBasePricePerDay
                               ELSE CHOOSE base \in config.base_price_per_day : TRUE
                 custom == <<"c", "u", "s", "t", "o", "m", "_">> \o str(num_days) \o <<"d">>
                 total_x100 == base_price * num_days * 85
             IN  IF fit # << >>
                 THEN PricedPeriod(fit[1].key, fit[1].price, 0, num_days)
                 ELSE PricedPeriod(custom, total_x100 \div 100, total_x100 % 100, num_days)

(* if start_date > end_date *)
LaterThan_unchecked(start_date, end_date) == FALSE

LaterThan(start_date, end_date) == start_date > end_date

calculate_price_of(table, category, num_posts, start_date, end_date) ==
    IF category \notin DOMAIN table
    THEN Raised("PricingError")
    ELSE LET config == table[category] IN
         IF config.model = "daily"
         THEN IF num_posts = NoPosts \/ num_posts < 1
              THEN Raised("PricingError")
              ELSE _calculate_daily_price(config, num_posts)
         ELSE IF config.model = "period"
         THEN IF start_date = NoDate \/ end_date = NoDate
              THEN Raised("PricingError")
              ELSE IF LaterThan(start_date, end_date)
              THEN Raised("PricingError")
              ELSE _calculate_period_price(config, start_date, end_date)
         ELSE Raised("PricingError")

calculate_price ==
    /\ pricing.result = NoResult
    /\ pricing' = [pricing EXCEPT !.result =
                      calculate_price_of(PricingTables[pricing.table], pricing.category,
                                         pricing.num_posts, pricing.start_date,
                                         pricing.end_date)]
    /\ UNCHANGED <<wstate, wdata, wtasks, stored, notices, wreply, today, users, push>>
    /\ UNCHANGED <<events, payments, tasks, fsm, fanout, last, quota>>

PricingCategories == DOMAIN PRICING_CONFIG \cup {"FESTIVAL"}

PostCounts == {NoPosts} \cup (0 .. 12)

(* None, 1 and 7 January, 28 January, 3 and 28 February, 3 March *)
PricingDates ==
    {NoDate, _parse_date(<<1, 1>>), _parse_date(<<7, 1>>), _parse_date(<<28, 1>>),
     _parse_date(<<3, 2>>), _parse_date(<<28, 2>>), _parse_date(<<3, 3>>)}

InitPricing ==
    /\ events = [e \in EventIds |-> NewEvent]
    /\ payments = << >>
    /\ tasks = EmptyBag
    /\ fsm = [u \in Users |-> NoFsm]
    /\ fanout = [e \in EventIds |-> 0]
    /\ last = NoAnswer
    /\ quota = [k \in UpdateKinds |-> 0]
    /\ wstate = NoState
    /\ wdata = NoData
    /\ wtasks = << >>
    /\ stored = << >>
    /\ notices = << >>
    /\ wreply = "none"
    /\ today = FirstDay
    /\ users = {}
    /\ push = NoPush
    /\ \E table \in DOMAIN PricingTables, category \in PricingCategories, num_posts \in PostCounts,
          start_date \in PricingDates, end_date \in PricingDates :
          pricing = [table |-> table, category |-> category, num_posts |-> num_posts,
                     start_date |-> start_date, end_date |-> end_date, result |-> NoResult]

NextPricing == calculate_price

SpecPricing == InitPricing /\ [][NextPricing]_vars

(* ------------------------------------------------------- the admin cleanup *)
(* delete(Event) with a WHERE clause or without: one bulk DELETE on the events  *)
(* table, no ORM cascade.  payments.event_id is declared ForeignKey("events.id") *)
(* with no ON DELETE rule; the store enforces it or not (SQLite enforces it only *)
(* on a connection that has set PRAGMA foreign_keys, and none does).  Enforced,  *)
(* the DELETE of a referenced Event raises IntegrityError and get_db rolls back. *)
Referenced(ids) == \E i \in PaymentIds : payments[i].event_id \in ids

DeleteEvents(ids, foreign_keys) ==
    IF foreign_keys /\ Referenced({e \in ids : events[e] # NoEvent})
    THEN events
    ELSE [e \in EventIds |-> IF e \in ids THEN NoEvent ELSE events[e]]

(* _cleanup_by_hours: recent are the Events with created_at >= now - hours *)
_cleanup_by_hours(recent, confirm, foreign_keys) ==
    IF confirm THEN DeleteEvents(recent, foreign_keys) ELSE events

_delete_all(confirm, foreign_keys) ==
    IF confirm THEN DeleteEvents(EventIds, foreign_keys) ELSE events

CleanupReply(op, u, deleted) ==
    Answer(Done(op, u, 0, IF deleted # events \/ \A e \in EventIds : events[e] = NoEvent
                          THEN "deleted" ELSE "IntegrityError"))

(* dryrun_2h, dryrun_24h (confirm=False) and delete_2h, delete_24h (confirm=True); *)
(* taken while no other handler is between its select and its commit               *)
cleanup_hours(u, recent, confirm, foreign_keys) ==
    /\ last = NoAnswer
    /\ tasks = EmptyBag
    /\ IF ~is_admin(u)
       THEN /\ events' = events
            /\ last' = Answer(Done("cleanup", u, 0, "denied"))
       ELSE /\ events' = _cleanup_by_hours(recent, confirm, foreign_keys)
            /\ last' = IF confirm THEN CleanupReply("cleanup", u, events')
                       ELSE Answer(Done("cleanup", u, 0, "dry_run"))
    /\ UNCHANGED <<payments, tasks, fsm, fanout, quota>>
    /\ UNCHANGED wvars

(* delete_all_confirm *)
delete_all_confirm(u, foreign_keys) ==
    /\ last = NoAnswer
    /\ tasks = EmptyBag
    /\ IF ~is_admin(u)
       THEN /\ events' = events
            /\ last' = Answer(Done("delete_all", u, 0, "denied"))
       ELSE /\ events' = _delete_all(TRUE, foreign_keys)
            /\ last' = CleanupReply("delete_all", u, events')
    /\ UNCHANGED <<payments, tasks, fsm, fanout, quota>>
    /\ UNCHANGED wvars

NextCleanup ==
    \/ Next
    \/ \E u \in Users, recent \in SUBSET EventIds, confirm \in BOOLEAN, foreign_keys \in BOOLEAN :
          cleanup_hours(u, recent, confirm, foreign_keys)
    \/ \E u \in Users, foreign_keys \in BOOLEAN : delete_all_confirm(u, foreign_keys)

SpecCleanup == Init /\ [][NextCleanup]_vars

(* ------------------------------------------------------- archived Events *)
(* The Event was ACTIVE and the start-up sweep archived it: it is paid, its   *)
(* Payment COMPLETED by the test confirmation or by the gateway; it may have  *)
(* been rejected once (admin_approve keeps reject_reason).                    *)
InitArchived ==
    /\ \E reason \in {NoReason, <<"x", "x", "x">>} :
          events = [e \in EventIds |->
                      [NewEvent EXCEPT !.status = ARCHIVED, !.payment_status = COMPLETED,
                                       !.reject_reason = reason]]
    /\ \E paid \in {TestPayment(RaceEvent), [GatewayPayment(RaceEvent) EXCEPT !.status = COMPLETED]} :
          payments = <<paid>>
    /\ tasks = EmptyBag
    /\ fsm = [u \in Users |-> NoFsm]
    /\ fanout = [e \in EventIds |-> 0]
    /\ last = NoAnswer
    /\ quota = [k \in UpdateKinds |-> Unbounded]
    /\ NoWizard
    /\ today = FirstDay
    /\ users = {}
    /\ push = NoPush
    /\ pricing = NoPricing

SpecArchived == InitArchived /\ [][Next]_vars

(* ------------------------------------------------------------ the claims *)
Confirmations == {"pay_test", "webhook"}

Payable == {APPROVED_WAITING_PAYMENT, PENDING_MODERATION}

BecomesActive(e) == events[e].status # ACTIVE /\ events'[e].status = ACTIVE

SameStore == events' = events /\ payments' = payments /\ fanout' = fanout

(* C2: a test confirmation or a success webhook that finds the Event ACTIVE     *)
(* changes neither Event.status, Event.payment_status nor the number of Payment *)
(* rows and sends no fan-out: the test confirmation returns at once, the        *)
(* webhook goes to its commit with the Event as it loaded it, and no step of a  *)
(* confirmation that loaded the Event ACTIVE changes any of them.               *)
C2_ConfirmIdempotent ==
    [][ /\ \A u \in Users, e \in EventIds :
             (ReadEvent(e).status = ACTIVE /\ PayTest(u, e)) =>
                 tasks' = tasks /\ SameStore
        /\ \A rec \in Running :
             (ReadEvent(rec.e).status = ACTIVE /\ WebhookReadEvent(rec)) =>
                 /\ SameStore
                 /\ \A r \in BagToSet(tasks') :
                        r.op = "webhook" /\ r.pc = "notify" => r \in Running
        /\ \A rec \in Running :
             (rec.op \in Confirmations /\ rec.ld.status = ACTIVE /\ TookStep(rec)) =>
                 /\ events' = events
                 /\ Len(payments') = Len(payments)
                 /\ fanout' = fanout
      ]_vars

(* A test confirmation answered "already published" while a success webhook that *)
(* loaded the Event ACTIVE is about to commit.                                   *)
C2_Witness ==
    /\ last.op = "pay_test"
    /\ last.reply = "already_published"
    /\ \E rec \in Running :
          At(rec, "webhook", "commit") /\ rec.kind = "success" /\ rec.ld.status = ACTIVE

(* C3: an Event becomes ACTIVE only from APPROVED_WAITING_PAYMENT or             *)
(* PENDING_MODERATION, by a handler that loaded it in one of these two; never    *)
(* from REJECTED, ARCHIVED or DRAFT.                                             *)
C3_ActiveOnlyFromPayable ==
    [][ \A e \in EventIds :
          BecomesActive(e) =>
              /\ events[e].status \in Payable
              /\ \A rec \in Running :
                    (TookStep(rec) /\ rec.e = e) => rec.ld.status \in Payable
      ]_vars

(* C4: the commit of an approval whose handler loaded the Event in a status other *)
(* than PENDING_MODERATION leaves Event.status unchanged.                         *)
C4_ApproveOnlyPending ==
    [][ \A rec \in Running :
          (AdminApproveCommit(rec) /\ rec.ld.status # PENDING_MODERATION) =>
              events'[rec.e].status = events[rec.e].status
      ]_vars

(* C5: a rejection is applied only to an Event its handler loaded in              *)
(* PENDING_MODERATION and with a trimmed reason of at least 3 characters; with a  *)
(* shorter reason the Event is unchanged and the admin stays in waiting_reason.   *)
C5_RejectOnlyPending ==
    [][ /\ \A rec \in Running :
             AdminRejectReasonCommit(rec) =>
                 /\ Len(rec.reason) >= 3
                 /\ rec.reason = strip(rec.reason)
                 /\ rec.ld.status # PENDING_MODERATION =>
                        events'[rec.e].status = events[rec.e].status
        /\ \A u \in Users, text \in ReasonInputs :
             (AdminRejectReason(u, text) /\ Len(strip(text)) < 3) =>
                 events' = events /\ tasks' = tasks /\ fsm'[u].state = "waiting_reason"
      ]_vars

(* C6: of two approvals that both loaded the Event in PENDING_MODERATION, the one *)
(* that commits after the other was applied makes no transition and sends the    *)
(* organizer no second payment prompt.                                           *)
C6_ApproveAppliedOnce ==
    [][ \A rec \in Running :
          ( /\ AdminApproveCommit(rec)
            /\ rec.ld.status = PENDING_MODERATION
            /\ events[rec.e].status = APPROVED_WAITING_PAYMENT ) =>
              last'.reply # "approved_prompt_sent"
      ]_vars

(* C7: approve, reject-start or reject-reason by a user outside the configured   *)
(* admin ids is answered with a denial; it starts no task, leaves every Event    *)
(* and the user's FSM state as they were.                                        *)
C7_NonAdminDenied ==
    [][ \A u \in Users \ ADMIN_IDS :
          ( \/ \E e \in CallbackEventIds : AdminApprove(u, e) \/ AdminRejectStart(u, e)
            \/ \E text \in ReasonInputs : AdminRejectReason(u, text) ) =>
              /\ last'.reply = "denied"
              /\ last'.actor = u
              /\ tasks' = tasks
              /\ events' = events
              /\ fsm' = fsm
      ]_vars

(* A non-admin was just denied the approval of an Event awaiting moderation. *)
C7_Witness ==
    /\ last.op = "approve"
    /\ last.actor \notin ADMIN_IDS
    /\ last.reply = "denied"
    /\ events[last.e].status = PENDING_MODERATION

(* C8: start-payment or test-confirm by a user who is not the Event's owner is   *)
(* answered with a denial; it starts no task (so no gateway call and no write)   *)
(* and leaves the Events and the Payment rows as they were.                      *)
C8_NonOwnerDenied ==
    [][ \A u \in Users, e \in CallbackEventIds :
          ( /\ ReadEvent(e) # NoEvent
            /\ ReadEvent(e).user_id # u
            /\ PayStart(u, e) \/ PayTest(u, e) ) =>
              /\ last'.reply = "denied"
              /\ last'.actor = u
              /\ tasks' = tasks
              /\ events' = events
              /\ payments' = payments
      ]_vars

(* A user who does not own it was just denied the payment of an Event that *)
(* awaits its owner's payment.                                             *)
C8_Witness ==
    /\ last.op \in {"pay_start", "pay_test"}
    /\ last.reply = "denied"
    /\ events[last.e].user_id # last.actor
    /\ events[last.e].status = APPROVED_WAITING_PAYMENT

(* C9: start-payment by the owner of an Event whose status is not                *)
(* APPROVED_WAITING_PAYMENT starts no task and leaves the Payment rows as they   *)
(* were; every step of a start-payment handler (the gateway call, the write of   *)
(* the Payment row) is of a handler that loaded the Event in that status.        *)
C9_PayStartOnlyWaiting ==
    [][ /\ \A u \in Users, e \in CallbackEventIds :
             (ReadEvent(e).status # APPROVED_WAITING_PAYMENT /\ PayStart(u, e)) =>
                 /\ tasks' = tasks
                 /\ payments' = payments
                 /\ last'.reply \in {"denied", "already_published", "after_moderation"}
        /\ \A rec \in Running :
             (rec.op = "pay_start" /\ TookStep(rec)) =>
                 rec.ld.status = APPROVED_WAITING_PAYMENT
      ]_vars

(* The owner was just told to wait for the moderation. *)
C9_Witness ==
    /\ last.op = "pay_start"
    /\ last.reply = "after_moderation"
    /\ events[last.e].user_id = last.actor
    /\ events[last.e].status # APPROVED_WAITING_PAYMENT

(* C10: in every reachable state an Event has at most one Payment row. *)
C10_OnePaymentPerEvent ==
    \A e \in EventIds : Cardinality({pid \in PaymentIds : payments[pid].event_id = e}) <= 1

(* A handler that found no Payment row was just refused its insert: another *)
(* handler had inserted the Event's row meanwhile.                          *)
C10_Witness ==
    /\ last.op \in {"pay_start", "pay_test"}
    /\ last.reply = "integrity_error"
    /\ Cardinality({pid \in PaymentIds : payments[pid].event_id = last.e}) = 1

(* C11: a start-payment whose gateway call fails tells the organizer so and      *)
(* ends there: the step creates no Payment row, leaves every existing row and   *)
(* every Event as they were, and the handler has no write left to make.         *)
C11_GatewayFailureLeavesStore ==
    [][ last'.op = "pay_start" /\ last'.reply = "gateway_failed" /\ last = NoAnswer =>
          /\ payments' = payments
          /\ events' = events
          /\ \E rec \in Running :
                /\ At(rec, "pay_start", "read_payment")
                /\ rec.actor = last'.actor
                /\ tasks' = tasks (-) One(rec)
      ]_vars

(* The gateway call just failed for an Event that already has a Payment row. *)
C11_Witness ==
    /\ last.op = "pay_start"
    /\ last.reply = "gateway_failed"
    /\ PaymentByEvent(last.e) # 0

(* C12: the commit of a cancel webhook leaves the Payment CANCELLED, the Event's *)
(* payment_status CANCELLED, and the Event's status as it was.                  *)
C12_CancelSetsBoth ==
    [][ \A rec \in Running :
          (WebhookCommit(rec) /\ rec.kind = "cancel") =>
              /\ payments'[rec.pid].status = CANCELLED
              /\ events'[rec.e].payment_status = CANCELLED
              /\ events'[rec.e].status = events[rec.e].status
      ]_vars

(* C13: an ACTIVE Event has payment_status COMPLETED and exactly one Payment *)
(* row, which is COMPLETED.                                                 *)
C13_ActiveIsPaid ==
    \A e \in EventIds :
        events[e].status = ACTIVE =>
            /\ events[e].payment_status = COMPLETED
            /\ Cardinality({pid \in PaymentIds : payments[pid].event_id = e}) = 1
            /\ \A pid \in PaymentIds :
                  payments[pid].event_id = e => payments[pid].status = COMPLETED

(* C14: an Event holds a reject_reason only while its status is REJECTED. *)
C14_ReasonOnlyRejected ==
    \A e \in EventIds : events[e].reject_reason # NoReason => events[e].status = REJECTED

(* ------------------------------------------------- the wizard's claims *)
Position(state) == CHOOSE i \in DOMAIN WizardOrder : WizardOrder[i] = state

(* The states an input may move a session to: the next one, and PHOTOS from *)
(* FREE_KIDS_YESNO when the optional age is not asked                       *)
Successors(state) ==
    IF state \notin WizardStates \/ state = "confirm"
    THEN {}
    ELSE {WizardOrder[Position(state) + 1]}
         \cup (IF state = "free_kids_question" THEN {"photos"} ELSE {})

(* The data keys each step stores *)
FieldsOf(state) ==
    CASE state = "city" -> {"city_slug"}
      [] state = "category" -> {"category"}
      [] state = "title" -> {"title"}
      [] state = "description" -> {"description"}
      [] state = "date_or_period" -> DateKeys
      [] state = "time_start" -> {"time_start"}
      [] state = "time_end" -> {"time_end"}
      [] state = "location" -> {"location"}
      [] state = "contact" -> {"contact"}
      [] state = "admission_price_mode" -> {"admission_price_mode"}
      [] state = "admission_price" -> {"admission_price"}
      [] state = "free_kids_question" -> {}
      [] state = "free_kids_age" -> {"free_kids_upto_age"}
      [] state = "photos" -> {"photo_file_ids"}
      [] OTHER -> {}

EarlierFields(state) ==
    UNION {FieldsOf(WizardOrder[i]) : i \in 1..(Position(state) - 1)}

(* The session was discarded: no state, or a new session at CITY with no data *)
Discarded == wstate = NoState \/ (wstate = "city" /\ wdata = NoData)

(* C15: an input moves the wizard session only to the same state, to its     *)
(* immediate successor in the fixed order (PHOTOS directly after the         *)
(* free-kids question when the optional age is skipped), or discards the     *)
(* session; so in CONFIRM every earlier field has been collected.            *)
C15_ForwardOrder ==
    [][ /\ wstate' # wstate => wstate' \in Successors(wstate) \/ Discarded'
        /\ wstate' = "confirm" => EarlierFields("confirm") \subseteq wdata'.keys
      ]_vars

C15_Witness ==
    /\ wstate = "confirm"
    /\ wdata.free_kids_upto_age = 6
    /\ wdata.period_start # 0
    /\ Len(wdata.photo_file_ids) = 2

(* The answers of a step whose input failed its validation *)
Rejections ==
    {"city_in_development", "title_too_short", "description_too_short", "one_day_only",
     "bad_date", "bad_time", "location_too_short", "contact_too_short", "bad_price_mode",
     "bad_prices", "bad_age", "not_a_photo", "photo_limit", "no_photos"}

C17_NothingPersistedBeforeYes ==
    [][ /\ stored' # stored =>
              /\ wstate = "confirm"
              /\ InProgress(wdata)
              /\ \E i \in DOMAIN wtasks : wtasks[i].pc = "db"
        /\ wtasks = << >> => stored' = stored
      ]_vars

C17_Witness ==
    /\ wreply = "cancelled"
    /\ wstate = NoState
    /\ stored = <<EarlierEvent>>

(* C18: a second confirm=yes of the same session, arriving while the first   *)
(* is being handled, changes nothing and answers that the submission is      *)
(* already in progress; one handler persists, so the session gets exactly    *)
(* one Event, and each administrator is sent its card once.                  *)
C18_DoubleConfirmOnce ==
    [][ /\ wtasks # << >> /\ wtasks' = wtasks =>
              /\ wreply' = "already_submitting"
              /\ wstate' = wstate /\ wdata' = wdata
              /\ stored' = stored /\ notices' = notices
        /\ Len(wtasks') <= 1
        /\ stored' # stored => Len(stored') = Len(stored) + 1
        /\ \A i \in DOMAIN wtasks' :
              wtasks'[i].pc = "notify" => stored'[Len(stored')].id = wtasks'[i].event_id
        /\ \A m, n \in DOMAIN notices' :
              notices'[m].event_id = notices'[n].event_id
                 /\ notices'[m].admin_id = notices'[n].admin_id => m = n
      ]_vars

C18_Witness ==
    /\ wreply = "already_submitting"
    /\ Len(wtasks) = 1
    /\ wtasks[1].pc = "notify"
    /\ wtasks[1].todo = {}
    /\ Len(stored) = 2
    /\ Len(notices) = Cardinality(ADMIN_IDS)

(* The administrators that were sent the card of an Event, and those it reached *)
SentTo(event_id, log) ==
    {log[n].admin_id : n \in {m \in DOMAIN log : log[m].event_id = event_id}}

DeliveredTo(event_id, log) ==
    {log[n].admin_id : n \in {m \in DOMAIN log : log[m].event_id = event_id /\ log[m].delivered}}

(* C19: a confirm=yes handler persists one Event with status                 *)
(* PENDING_MODERATION and payment_status PENDING; no send to an              *)
(* administrator, delivered or not, ends the handler or touches the Event;   *)
(* the handler ends only by destroying the session and telling the organizer *)
(* the submission was sent, after a send to every administrator.             *)
C19_SubmissionSurvivesNotifications ==
    [][ /\ notices' # notices =>
              /\ Len(wtasks') = Len(wtasks)
              /\ stored' = stored /\ wstate' = wstate /\ wdata' = wdata
        /\ Len(wtasks') < Len(wtasks) =>
              \E i \in DOMAIN wtasks :
                 LET id == wtasks[i].event_id IN
                 /\ wtasks' = Without(wtasks, i)
                 /\ wreply' = "submitted"
                 /\ wstate' = NoState /\ wdata' = NoData
                 /\ stored' = stored
                 /\ Cardinality({k \in DOMAIN stored : stored[k].id = id}) = 1
                 /\ \A k \in DOMAIN stored :
                       stored[k].id = id =>
                          /\ stored[k].status = PENDING_MODERATION
                          /\ stored[k].payment_status = PENDING
                 /\ SentTo(id, notices) = ADMIN_IDS
      ]_vars

C19_Witness ==
    /\ wreply = "submitted"
    /\ wstate = NoState
    /\ wtasks = << >>
    /\ Len(stored) = 2
    /\ stored[2].status = PENDING_MODERATION
    /\ DeliveredTo(2, notices) = {SecondAdmin}

(* C20: the EventPhoto rows persisted by confirm=yes have positions exactly  *)
(* 1..N, the row at position k holding the k-th retained photo, where the    *)
(* retained list is what the adds and remove-lasts of the PHOTOS step left   *)
(* and N <= 5; an add appends, a remove-last drops the last, and an add with *)
(* five photos retained is rejected.                                         *)
C20_PhotoPositionsDense ==
    [][ /\ Len(wdata'.photo_file_ids) <= MaxPhotos
        /\ wreply' = "photo_added" /\ wdata' # wdata =>
              /\ Len(wdata.photo_file_ids) < MaxPhotos
              /\ \E file_id \in FileIds :
                    wdata'.photo_file_ids = Append(wdata.photo_file_ids, file_id)
        /\ wreply' = "photo_removed" /\ wdata' # wdata =>
              wdata'.photo_file_ids =
                 SubSeq(wdata.photo_file_ids, 1, Len(wdata.photo_file_ids) - 1)
        /\ wreply' = "photo_limit" /\ wtasks' = wtasks =>
              Len(wdata.photo_file_ids) = MaxPhotos /\ wdata' = wdata
        /\ stored' # stored =>
              LET kept == wdata.photo_file_ids
                  rows == stored'[Len(stored')].photos
              IN  /\ Len(rows) = Len(kept)
                  /\ {rows[k].position : k \in DOMAIN rows} = 1..Len(kept)
                  /\ \A k \in DOMAIN rows : rows[k].file_id = kept[rows[k].position]
      ]_vars

C20_Witness ==
    /\ Len(stored) = 2
    /\ Len(stored[2].photos) = 3
    /\ stored[2].photos[1].file_id = "b"
    /\ stored[2].photos[2].file_id = "a"
    /\ stored[2].photos[3].position = 3

(* C21: a tier-price input that the ADMISSION_PRICE step accepts covers      *)
(* exactly the keys of the selected mode, every value a non-negative number. *)
C21_TierPricesExact ==
    [][ wstate = "admission_price" /\ wstate' = "free_kids_question" =>
           /\ {kv[1] : kv \in wdata'.admission_price} =
                 PRICE_TIER_PRESETS[wdata.admission_price_mode]
           /\ \A kv \in wdata'.admission_price : kv[2] # NaN /\ kv[2] >= 0
      ]_vars

(* C22: every Event the wizard persists has one scheduling shape, fixed by   *)
(* its category: an EXHIBITION has period_start <= period_end and no         *)
(* event_date, any other category has event_date and no period.              *)
C22_ShapeByCategory ==
    \A k \in DOMAIN stored :
       IF stored[k].category = "EXHIBITION"
       THEN /\ stored[k].event_date = 0
            /\ stored[k].period_start # 0 /\ stored[k].period_end # 0
            /\ stored[k].period_start <= stored[k].period_end
       ELSE /\ stored[k].event_date # 0
            /\ stored[k].period_start = 0 /\ stored[k].period_end = 0

(* ----------------------------------------------- the resubmission's claims *)
(* The owner, city, title, description, category, schedule and price columns *)
Content(ev) ==
    <<ev.user_id, ev.city_slug, ev.title, ev.description, ev.category,
      ev.event_date, ev.event_time_start, ev.event_time_end,
      ev.period_start, ev.period_end,
      ev.admission_price_json, ev.free_kids_upto_age>>

(* C23: resubmitting a REJECTED Event adds one Event with a new id, status   *)
(* PENDING_MODERATION, payment_status PENDING and no reject_reason, whose    *)
(* owner, city, title, description, category, schedule and price columns     *)
(* equal the original's, and whose photos are the original's file ids in     *)
(* the same order at positions 1..N.                                         *)
C23_ResubmitCopies ==
    [][ stored' # stored =>
          \E i \in DOMAIN wtasks :
             /\ wtasks[i].pc = "db"
             /\ wtasks[i].old_event_id \in DOMAIN stored
             /\ Len(stored') = Len(stored) + 1
             /\ LET old == stored[wtasks[i].old_event_id]
                    new == stored'[Len(stored')]
                IN  /\ \A k \in DOMAIN stored : stored[k].id # new.id
                    /\ new.status = PENDING_MODERATION
                    /\ new.payment_status = PENDING
                    /\ new.reject_reason = NoReason
                    /\ Content(new) = Content(old)
                    /\ Len(new.photos) = Len(old.photos)
                    /\ \A k \in DOMAIN new.photos :
                          /\ new.photos[k].position = k
                          /\ \E n \in DOMAIN old.photos :
                                /\ old.photos[n].position = k
                                /\ old.photos[n].file_id = new.photos[k].file_id
      ]_vars

C23_Witness ==
    /\ Len(stored) = 2
    /\ stored[1].status = REJECTED
    /\ stored[2].status = PENDING_MODERATION
    /\ stored[2].category = "EXHIBITION"
    /\ Len(stored[2].photos) = MaxPhotos

(* C24: resubmission leaves every Event that was in the store as it was:    *)
(* the original keeps status REJECTED, its reject_reason, its content and   *)
(* its EventPhoto rows.                                                     *)
C24_OriginalUntouched ==
    [][ \A k \in DOMAIN stored : k \in DOMAIN stored' /\ stored'[k] = stored[k] ]_vars

C24_Witness ==
    /\ wreply = "resubmitted"
    /\ Len(stored) = 2
    /\ stored[1].status = REJECTED
    /\ stored[1].reject_reason = Xs(MinReasonLen)
    /\ Len(stored[1].photos) = 2

ResubmitRefusals == {"not_found", "not_owner", "not_rejected"}

(* C25: fix-and-resubmit adds an Event only for the owner of an existing    *)
(* REJECTED Event; a refused call adds no Event and no photo, and           *)
(* administrators are sent cards only of a copy that was made.              *)
C25_ResubmitOnlyOwnerRejected ==
    [][ /\ stored' # stored =>
              \E i \in DOMAIN wtasks :
                 /\ wtasks[i].old_event_id \in DOMAIN stored
                 /\ stored[wtasks[i].old_event_id].user_id = wtasks[i].actor
                 /\ stored[wtasks[i].old_event_id].status = REJECTED
                 /\ wtasks'[i].event_id = Len(stored')
        /\ wreply' \in ResubmitRefusals /\ Len(wtasks') < Len(wtasks) =>
              stored' = stored /\ notices' = notices
        /\ notices' # notices =>
              \E i \in DOMAIN wtasks :
                 /\ notices' = Append(notices, notices'[Len(notices')])
                 /\ notices'[Len(notices')].event_id = wtasks[i].event_id
                 /\ wtasks[i].event_id \in DOMAIN stored
                 /\ stored[wtasks[i].event_id].status = PENDING_MODERATION
                 /\ Content(stored[wtasks[i].event_id]) = Content(stored[wtasks[i].old_event_id])
      ]_vars

C25_Witness ==
    /\ wreply = "not_owner"
    /\ wtasks = << >>
    /\ Len(stored) = 1
    /\ stored[1].status = REJECTED
    /\ notices = << >>

(* C26: a sweep run on the date today changes an Event's status exactly when  *)
(* the Event is ACTIVE and its event_date is set and before today, or its     *)
(* period_end is set and before today; the new status is ARCHIVED and no      *)
(* other column changes. An ACTIVE Event dated today, or whose period ends    *)
(* today, stays ACTIVE, and an Event in any other status is left as it was.   *)
C26_ArchiveExactlyExpiredActive ==
    [][today' = today =>
         /\ DOMAIN stored' = DOMAIN stored
         /\ \A k \in DOMAIN stored :
               LET ev == stored[k]
                   past == \/ ev.event_date # 0 /\ ev.event_date < today
                           \/ ev.period_end # 0 /\ ev.period_end < today
               IN  /\ stored'[k].status # ev.status <=> (ev.status = ACTIVE /\ past)
                   /\ stored'[k].status # ev.status =>
                         stored'[k] = [ev EXCEPT !.status = ARCHIVED]
                   /\ stored'[k].status = ev.status => stored'[k] = ev
                   /\ ev.status # ACTIVE => stored'[k] = ev
                   /\ (ev.status = ACTIVE /\ today \in {ev.event_date, ev.period_end}
                         /\ ~past) => stored'[k].status = ACTIVE]_vars

(* The sweep of the last day archived the Event dated the day before and kept *)
(* the ACTIVE Event whose period ends on the day of the sweep.                *)
C26_Witness ==
    /\ today = _parse_date(<<1, 2>>)
    /\ stored[1].status = ARCHIVED
    /\ stored[1].event_date = _parse_date(<<2, 1>>)
    /\ stored[2].status = ACTIVE
    /\ stored[2].period_end = today

(* C27: a call of the publish fan-out for an ACTIVE Event makes exactly one   *)
(* send attempt to every User of the Event's city whose last_seen_at is set,  *)
(* the organizer excepted, who gets none, and none to anyone else; a failed   *)
(* delivery does not stop the attempts to the recipients after it.            *)
C27_FanoutReachesEveryResident ==
    \A k \in DOMAIN stored :
        (stored[k].status = ACTIVE /\ push.event_id = stored[k].id) =>
            \A u \in users :
                Cardinality({n \in DOMAIN push.attempts :
                               /\ push.attempts[n].event_id = stored[k].id
                               /\ push.attempts[n].uid = u.telegram_id})
                  = IF /\ u.city_slug = stored[k].city_slug
                       /\ u.last_seen_at # 0
                       /\ u.telegram_id # stored[k].user_id
                    THEN 1
                    ELSE 0

(* C28: once a handler has made an Event ACTIVE (the test confirmation, the   *)
(* gateway's success webhook, or the start of a payment that finds the        *)
(* Payment COMPLETED) and the handlers in flight have finished, the publish   *)
(* fan-out has been performed for that Event: it was not skipped for reading  *)
(* the Event before the activating transaction was committed.                 *)
C28_ActivationFansOut ==
    \A e \in EventIds :
        (events[e].status = ACTIVE /\ tasks = EmptyBag /\ last = NoAnswer) =>
            fanout[e] >= 1

(* What the session of a handler in flight still has to commit *)
Uncommitted(rec) ==
    \/ rec.lp # NoPayment /\ WebhookPayment(rec.kind, rec.lp) # rec.lp
    \/ rec.ld # NoEvent /\ ActivatedEvent(rec.ld) # rec.ld

(* C29: a transition handler commits its Event and Payment change before it  *)
(* triggers an outbound notification: no handler stands at its notification   *)
(* with a change of its transition still uncommitted, where a failure could   *)
(* leave it unwritten or rolled back.                                         *)
C29_CommitBeforeNotify ==
    \A rec \in Running : rec.pc = "notify" => ~Uncommitted(rec)

(* The capacity a package key stands for, and the capacities of a category *)
Capacity(package) == _extract_int_prefix(package.key)

Capacities(config) == {Capacity(config.packages[k]) : k \in DOMAIN config.packages}

(* C30: for a category of the daily model, calculate_price with num_posts at  *)
(* least 1 and at most the largest configured capacity returns the package    *)
(* with the smallest capacity that is not below num_posts, and total_price is *)
(* that package's fixed price, not a multiple of it; with the capacities      *)
(* 1, 3, 5, 10 the counts 1, 2..3, 4..5 and 6..10 select the first, second,   *)
(* third and fourth package.                                                  *)
C30_DailyTierSelection ==
    (pricing.result # NoResult /\ pricing.category \in DOMAIN PricingTables[pricing.table]) =>
        LET config == PricingTables[pricing.table][pricing.category]
            n == pricing.num_posts
        IN  (/\ config.model = "daily"
             /\ BadKey \notin Capacities(config)
             /\ n >= 1
             /\ \E c \in Capacities(config) : n <= c) =>
               /\ pricing.result.raised = ""
               /\ \E k \in DOMAIN config.packages :
                     LET package == config.packages[k] IN
                     /\ pricing.result.package_name = package.key
                     /\ pricing.result.total_price = package.price
                     /\ Capacity(package) >= n
                     /\ \A c \in Capacities(config) : c >= n => Capacity(package) <= c
               /\ (pricing.table = "tiered" /\ pricing.category = "CONCERT") =>
                     pricing.result.total_price =
                        IF n = 1 THEN 1499
                        ELSE IF n <= 3 THEN 3499
                        ELSE IF n <= 5 THEN 6099
                        ELSE 10999

(* Four posts of a concert with the packages 1, 3, 5, 10: the third package *)
C30_Witness ==
    /\ pricing.table = "tiered"
    /\ pricing.category = "CONCERT"
    /\ pricing.num_posts = 4
    /\ pricing.result.package_name = <<"5">> \o _posts
    /\ pricing.result.total_price = 6099

(* The price of the package with the given capacity *)
PriceOf(config, capacity) ==
    config.packages[CHOOSE k \in DOMAIN config.packages :
                       Capacity(config.packages[k]) = capacity].price

NonDecreasing(config) ==
    \A j, k \in DOMAIN config.packages :
        Capacity(config.packages[j]) <= Capacity(config.packages[k]) =>
            config.packages[j].price <= config.packages[k].price

(* C31: for a daily category with the capacities 1, 3, 5, 10 and prices that do  *)
(* not decrease with the capacity, calculate_price with num_posts = 11 returns a *)
(* total that is at least the price of the 10-package, whether a flat price per  *)
(* extra item is configured or not.                                              *)
C31_OverflowAtLeastLargest ==
    (pricing.result # NoResult /\ pricing.category \in DOMAIN PricingTables[pricing.table]) =>
        LET config == PricingTables[pricing.table][pricing.category] IN
        (/\ config.model = "daily"
         /\ Capacities(config) = {1, 3, 5, 10}
         /\ NonDecreasing(config)
         /\ pricing.num_posts = 11) =>
            /\ pricing.result.raised = ""
            /\ pricing.result.total_price >= PriceOf(config, 10)

(* The days of the calendar from start to end, both ends included *)
DaysFromTo(start_date, end_date) ==
    {month * 100 + day : month \in 1 .. 12, day \in 1 .. 31} \cap
    {date \in start_date .. end_date : date % 100 \in 1 .. DaysIn(date \div 100)}

DayCapacity(package) == int(BeforeUnderscore(package.key))

DayCapacities(config) == {DayCapacity(config.packages[k]) : k \in DOMAIN config.packages}

(* C32: for the period model calculate_price counts the days inclusively,      *)
(* num_days = (end_date - start_date) + 1: start = end gives 1, end six days   *)
(* after start gives 7, and the package selected is the one with the smallest  *)
(* day capacity that is not below num_days.                                    *)
C32_InclusiveDays ==
    (pricing.result # NoResult /\ pricing.category \in DOMAIN PricingTables[pricing.table]) =>
        LET config == PricingTables[pricing.table][pricing.category]
            start_date == pricing.start_date
            end_date == pricing.end_date
            num_days == pricing.result.num_days
        IN  (/\ config.model = "period"
             /\ BadKey \notin DayCapacities(config)
             /\ start_date # NoDate
             /\ end_date # NoDate
             /\ start_date <= end_date) =>
               /\ pricing.result.raised = ""
               /\ num_days = Cardinality(DaysFromTo(start_date, end_date))
               /\ start_date = end_date => num_days = 1
               /\ (start_date = _parse_date(<<28, 1>>) /\ end_date = _parse_date(<<3, 2>>)) =>
                     num_days = 7
               /\ (\E c \in DayCapacities(config) : num_days <= c) =>
                     \E k \in DOMAIN config.packages :
                        LET package == config.packages[k] IN
                        /\ pricing.result.package_name = package.key
                        /\ pricing.result.total_price = package.price
                        /\ pricing.result.hundredths = 0
                        /\ DayCapacity(package) >= num_days
                        /\ \A c \in DayCapacities(config) :
                              c >= num_days => DayCapacity(package) <= c

(* An exhibition from 28 January to 3 February: seven days, the 7-day package *)
C32_Witness ==
    /\ pricing.table = "tiered"
    /\ pricing.category = "EXHIBITION"
    /\ pricing.start_date = _parse_date(<<28, 1>>)
    /\ pricing.end_date = _parse_date(<<3, 2>>)
    /\ pricing.result.num_days = 7
    /\ pricing.result.package_name = <<"7">> \o _days
    /\ pricing.result.total_price = 999

(* C33: calculate_price fails with PricingError and returns no price when the *)
(* category is not configured, when a daily category is given no num_posts or *)
(* num_posts below 1, when a period category is given no start or no end      *)
(* date, or when its start_date is later than its end_date.                   *)
C33_PricingErrors ==
    pricing.result # NoResult =>
        LET table == PricingTables[pricing.table]
            configured == pricing.category \in DOMAIN table
            model == IF configured THEN table[pricing.category].model ELSE ""
        IN  (\/ ~configured
             \/ model = "daily" /\ (pricing.num_posts = NoPosts \/ pricing.num_posts < 1)
             \/ model = "period" /\ (pricing.start_date = NoDate \/ pricing.end_date = NoDate)
             \/ model = "period" /\ pricing.start_date > pricing.end_date) =>
               /\ pricing.result.raised = "PricingError"
               /\ pricing.result.package_name = << >>
               /\ pricing.result.price = 0
               /\ pricing.result.total_price = 0

(* An exhibition that would end (7 January) before it starts (28 January) *)
C33_Witness ==
    /\ pricing.category = "EXHIBITION"
    /\ pricing.start_date = _parse_date(<<28, 1>>)
    /\ pricing.end_date = _parse_date(<<7, 1>>)
    /\ pricing.result.raised = "PricingError"

(* C34: in every reachable state every Payment row references an existing   *)
(* Event; no operation, the admin cleanup deletions of Events included,      *)
(* leaves a Payment whose event_id names an Event that no longer exists.     *)
C34_PaymentsReferenceEvents ==
    \A i \in PaymentIds : ReadEvent(payments[i].event_id) # NoEvent

(* One confirmation path has run to its end and the other has not started *)
PathAlone(kind) ==
    /\ tasks = EmptyBag
    /\ last = NoAnswer
    /\ quota[kind] = 0
    /\ \A other \in Confirmations \ {kind} : quota[other] = 1

PathOutcome ==
    [status |-> events[RaceEvent].status,
     payment_status |-> events[RaceEvent].payment_status,
     payment |-> {payments[i].status : i \in PaymentIds},
     fanouts |-> fanout[RaceEvent]]

C35_RowsAgree ==
    \A kind \in Confirmations :
        PathAlone(kind) =>
            /\ PathOutcome.status = ACTIVE
            /\ PathOutcome.payment_status = COMPLETED
            /\ PathOutcome.payment = {COMPLETED}
            /\ kind = "pay_test" => PathOutcome.fanouts = 1

C37_ArchivedIsTerminal ==
    [][ \A e \in EventIds :
          events[e].status = ARCHIVED => events'[e].status = ARCHIVED
      ]_vars

(* C38: the confirm in-progress flag never blocks a session for good: once   *)
(* no confirm=yes handler is in flight, either the session was destroyed (the *)
(* Event persisted) or the session is still in CONFIRM with the flag cleared, *)
(* so that a later confirm=yes is not answered "already submitting".          *)
C38_FlagClearedAfterAttempt ==
    (wtasks = << >> /\ wstate = "confirm") => ~InProgress(wdata)

(* The Users the recipient query of an Event's city selects *)
Resolved(event) == {u \in users : u.city_slug = event.city_slug /\ u.last_seen_at # 0}

(* C39: every call of the publish fan-out for an ACTIVE Event returns counts  *)
(* with sent + failed + skipped = recipients, where recipients is the size of *)
(* the resolved recipient set, skipped counts the organizer if it is in that  *)
(* set, and every other recipient is counted once, as sent or as failed.      *)
C39_CountsAddUp ==
    \A k \in DOMAIN stored :
        (stored[k].status = ACTIVE /\ push.event_id = stored[k].id) =>
            LET organizer == {u \in Resolved(stored[k]) : u.telegram_id = stored[k].user_id}
            IN  /\ push.result \in {"done", "no_recipients"}
                /\ push.counts.sent + push.counts.failed + push.counts.skipped =
                      push.counts.recipients
                /\ push.counts.recipients = Cardinality(Resolved(stored[k]))
                /\ push.counts.skipped = Cardinality(organizer)
                /\ push.counts.sent + push.counts.failed =
                      Cardinality(Resolved(stored[k]) \ organizer)

(* C40: starting a new submission discards any in-progress one: after the    *)
(* organizer-entry action the wizard session is in state CITY with no         *)
(* collected data (no fields, photos, price mode or confirm in-progress flag  *)
(* carried over), and no Event is persisted for the discarded session.        *)
C40_EntryDiscardsSession ==
    [][ organizer_entry =>
          /\ wstate' = "city"
          /\ wdata'.keys = {}
          /\ wdata'.photo_file_ids = << >>
          /\ wdata'.admission_price_mode = ""
          /\ ~InProgress(wdata')
          /\ wdata' = NoData
          /\ stored' = stored
          /\ wtasks' = << >>
      ]_vars

(* The session right after the entry, with the Event of the earlier *)
(* submission the only one stored                                   *)
C40_Witness ==
    /\ wreply = "choose_city"
    /\ wstate = "city"
    /\ wdata = NoData
    /\ stored = <<EarlierEvent>>
    /\ notices = << >>

====
